---- MODULE Spec2Model ----
(***************************************************************************)
(* gml: a Gmail command-line client.  This module models the list, get and *)
(* auth commands (cmd: runList, runGet, runAuth), the operations behind    *)
(* them (internal/gml: NewService, ListMessages, GetMessage, ExtractBody,  *)
(* ParseFields; internal/google: Authenticate, saveToken) and the label    *)
(* index (internal/gml/labels.go).                                         *)
(*                                                                         *)
(* Specifications: Spec (ListMessages and the end of runList), LiveSpec    *)
(* (the same under weak fairness), GetSpec (GetMessage and the end of      *)
(* runGet), CmdSpec (both commands from the command line on, over          *)
(* configurations and flags), CancelSpec (both operations under a context  *)
(* that may be cancelled), AuthSpec and AuthLiveSpec (the OAuth flow of    *)
(* the auth command, without and with weak fairness of its own steps),     *)
(* and the unit harnesses LabelSpec, BodySpec and FieldsSpec.              *)
(*                                                                         *)
(* Strings that the code lowercases, trims or splits (label names, label   *)
(* IDs, the -l tokens and the -f value) are sequences of one-character     *)
(* strings, so ToLower, TrimSpace and Split are computed, character by     *)
(* character.  Opaque strings (message IDs, page tokens, the query, the    *)
(* e-mail address, file paths) are TLA+ strings.                           *)
(***************************************************************************)
EXTENDS Naturals, Sequences, FiniteSets

VARIABLES
    pc,              \* position of the list command / of the unit harness
    opts,            \* ListMessagesOptions of this invocation
    srvLabels,       \* the mailbox's label set, as Users.Labels.List returns it
    userEmail,       \* ListMessages: userEmail
    labelsIndex,     \* ListMessages: labelsIndex (NilIndex is the nil pointer)
    resolvedLabels,  \* ListMessages: resolvedLabels
    allMessages,     \* ListMessages: allMessages (identifiers accumulated so far)
    pageToken,       \* ListMessages: pageToken
    fetched,         \* ListMessages: number of identifiers the fetch loop has handled
    messages,        \* ListMessages: messages (the summaries built so far / returned)
    err,             \* the error ListMessages returned (NoErr is nil)
    calls,           \* every API call issued so far, in order, with its response
    outcome,         \* what runList did with the result
    uop,             \* unit harness: the function last applied
    uin,             \* unit harness: its input
    uout,            \* unit harness: its result
    cfg,             \* the Config that LoadConfig produced
    env,             \* the credential files that can be read, and whether default credentials exist
    args,            \* the command line: -n, -f and the message ID of get
    detail,          \* GetMessage: the *MessageDetail returned (NilDetail is nil)
    ctx,             \* the command's context: done once cancelled
    oauth            \* the auth command: token file, local server, callback handlers

vars == <<pc, opts, srvLabels, userEmail, labelsIndex, resolvedLabels, allMessages,
          pageToken, fetched, messages, err, calls, outcome, uop, uin, uout,
          cfg, env, args, detail, ctx, oauth>>

----------------------------------------------------------------------------
(* Bounds of the model *)

\* most pages one listing is followed through
MaxPages == 3
\* most labels in the mailbox of the label harness
MaxLabels == 2
\* most tokens / IDs handed to one ResolveLabelIDs / MapLabelIDsToNames call
MaxReq == 2

----------------------------------------------------------------------------
(* strings.ToLower, strings.TrimSpace *)

LowerOf ==
    [A |-> "a", B |-> "b", C |-> "c", D |-> "d", E |-> "e", F |-> "f", G |-> "g",
     H |-> "h", I |-> "i", J |-> "j", K |-> "k", L |-> "l", M |-> "m", N |-> "n",
     O |-> "o", P |-> "p", Q |-> "q", R |-> "r", S |-> "s", T |-> "t", U |-> "u",
     V |-> "v", W |-> "w", X |-> "x", Y |-> "y", Z |-> "z"]

LowerChar(c) == IF c \in DOMAIN LowerOf THEN LowerOf[c] ELSE c

ToLower(s) == [i \in 1..Len(s) |-> LowerChar(s[i])]

IsSpace(c) == c \in {" ", "\t", "\n", "\r"}

TrimSpace(s) ==
    LET keep == {i \in 1..Len(s) : ~IsSpace(s[i])}
    IN  IF keep = {} THEN << >>
        ELSE LET lo == CHOOSE i \in keep : \A j \in keep : i <= j
                 hi == CHOOSE i \in keep : \A j \in keep : j <= i
             IN  SubSeq(s, lo, hi)

----------------------------------------------------------------------------
(* config.go: Config; the command line; context.Context *)

AuthTypeOAuth == "oauth"

AuthTypeServiceAccount == "service_account"

Config(authType, applicationCredentials, userCredentials) ==
    [AuthType |-> authType, GoogleApplicationCredentials |-> applicationCredentials,
     GoogleUserCredentials |-> userCredentials]

\* a complete OAuth configuration whose two files exist
ValidConfig == Config(AuthTypeOAuth, "creds.json", "token.json")

FullEnv == [files |-> {"creds.json", "token.json"}, adc |-> FALSE]

\* no flag given, no argument
NoArgs == [n |-> << >>, fields |-> << >>, id |-> ""]

\* a context that was not cancelled; at is the number of API calls issued
\* before the cancellation
Background == [done |-> FALSE, at |-> 0]

\* the nil *MessageDetail
NilDetail ==
    [nil |-> TRUE, ID |-> "", ThreadID |-> "", URL |-> << >>, From |-> "", To |-> "",
     Subject |-> "", Date |-> "", Labels |-> << >>, Body |-> ""]

\* the auth command not started: the token file is absent ("none") or holds an
\* earlier token ("old"); no server, no handler, nothing received
NoOAuth ==
    [tokenFile |-> "none", open |-> FALSE, serve |-> "off", handlers |-> << >>,
     code |-> "", failed |-> FALSE, exchanged |-> FALSE]

\* the part of the state that ListMessages and the unit harnesses leave alone
IdleCommand ==
    /\ cfg = ValidConfig
    /\ env = FullEnv
    /\ args = NoArgs
    /\ detail = NilDetail
    /\ ctx = Background
    /\ oauth = NoOAuth

----------------------------------------------------------------------------
(* errors: a message and, for "label not found", the offending raw token *)

NoErr == [msg |-> "", arg |-> << >>]

Err(m) == [msg |-> m, arg |-> << >>]

\* an error that wraps the context's cancellation (fmt.Errorf with %w)
Canceled(m) == [msg |-> m, arg |-> <<"context canceled">>]

LabelNotFound(raw) == [msg |-> "label not found", arg |-> raw]

----------------------------------------------------------------------------
(* internal/gml/labels.go: LabelIndex *)

MapPut(m, k, v) == [x \in (DOMAIN m) \cup {k} |-> IF x = k THEN v ELSE m[x]]

NilIndex == [nil |-> TRUE, nameToID |-> << >>, idToName |-> << >>, idToID |-> << >>]

EmptyIndex == [nil |-> FALSE, nameToID |-> << >>, idToName |-> << >>, idToID |-> << >>]

\* the body of FetchLabelIndex's loop, for one label
IndexLabel(idx, l) ==
    [nil |-> FALSE,
     nameToID |-> MapPut(idx.nameToID, ToLower(l.Name), l.Id),
     idToName |-> MapPut(idx.idToName, ToLower(l.Id), l.Name),
     idToID   |-> MapPut(idx.idToID, ToLower(l.Id), l.Id)]

RECURSIVE IndexLabels(_, _)
IndexLabels(labels, n) ==
    IF n = 0 THEN EmptyIndex ELSE IndexLabel(IndexLabels(labels, n - 1), labels[n])

\* FetchLabelIndex, given the labels of a successful Users.Labels.List
BuildLabelIndex(labels) == IndexLabels(labels, Len(labels))

ResolveKeyNoLower(raw) == TrimSpace(raw)

\* the key ResolveLabelIDs looks a requested token up by
ResolveKey(raw) == ToLower(TrimSpace(raw))

LookupLabelIDFirst(idx, label) ==
    IF label \in DOMAIN idx.idToID THEN [ok |-> TRUE, id |-> idx.idToID[label]]
    ELSE IF label \in DOMAIN idx.nameToID THEN [ok |-> TRUE, id |-> idx.nameToID[label]]
    ELSE [ok |-> FALSE, id |-> << >>]

\* the two lookups of ResolveLabelIDs: nameToID first, then idToID
LookupLabel(idx, label) ==
    IF label \in DOMAIN idx.nameToID THEN [ok |-> TRUE, id |-> idx.nameToID[label]]
    ELSE IF label \in DOMAIN idx.idToID THEN [ok |-> TRUE, id |-> idx.idToID[label]]
    ELSE [ok |-> FALSE, id |-> << >>]

RECURSIVE ResolveLoopDedup(_, _, _, _)
ResolveLoopDedup(idx, requested, i, resolved) ==
    IF i > Len(requested) THEN [ids |-> resolved, err |-> NoErr]
    ELSE LET hit == LookupLabel(idx, ResolveKey(requested[i]))
         IN  IF hit.ok
             THEN ResolveLoopDedup(idx, requested, i + 1,
                                   IF \E k \in 1..Len(resolved) : resolved[k] = hit.id
                                   THEN resolved ELSE Append(resolved, hit.id))
             ELSE [ids |-> << >>, err |-> LabelNotFound(requested[i])]

RECURSIVE ResolveLoopBestEffort(_, _, _, _)
ResolveLoopBestEffort(idx, requested, i, resolved) ==
    IF i > Len(requested) THEN [ids |-> resolved, err |-> NoErr]
    ELSE LET hit == LookupLabel(idx, ResolveKey(requested[i]))
         IN  IF hit.ok
             THEN ResolveLoopBestEffort(idx, requested, i + 1, Append(resolved, hit.id))
             ELSE ResolveLoopBestEffort(idx, requested, i + 1, resolved)

\* the loop of ResolveLabelIDs from the i-th token on
RECURSIVE ResolveLoop(_, _, _, _)
ResolveLoop(idx, requested, i, resolved) ==
    IF i > Len(requested) THEN [ids |-> resolved, err |-> NoErr]
    ELSE LET hit == LookupLabel(idx, ResolveKey(requested[i]))
         IN  IF hit.ok
             THEN ResolveLoop(idx, requested, i + 1, Append(resolved, hit.id))
             ELSE [ids |-> << >>, err |-> LabelNotFound(requested[i])]

ResolveLabelIDs(idx, requested) ==
    IF idx.nil THEN [ids |-> << >>, err |-> Err("label index is nil")]
    ELSE ResolveLoop(idx, requested, 1, << >>)

MapOneDropAbsent(idx, id) ==
    IF ToLower(id) \in DOMAIN idx.idToName THEN <<idx.idToName[ToLower(id)]>> ELSE << >>

\* the body of MapLabelIDsToNames's loop: what one ID appends to names
MapOne(idx, id) ==
    IF ToLower(id) \in DOMAIN idx.idToName THEN <<idx.idToName[ToLower(id)]>> ELSE <<id>>

RECURSIVE MapLoop(_, _, _)
MapLoop(idx, ids, n) ==
    IF n = 0 THEN << >> ELSE MapLoop(idx, ids, n - 1) \o MapOne(idx, ids[n])

MapLabelIDsToNames(idx, ids) == IF idx.nil THEN ids ELSE MapLoop(idx, ids, Len(ids))

----------------------------------------------------------------------------
(* The mail service, as the code sees it through the Gmail client *)

\* "IN", "L1", "My", "X9" as character sequences
StrIN == <<"I", "N">>
StrL1 == <<"L", "1">>
StrMy == <<"M", "y">>
StrX9 == <<"X", "9">>

\* the label set of the mailbox the list command runs against
SpecLabels == <<[Id |-> StrIN, Name |-> StrIN], [Id |-> StrL1, Name |-> StrMy]>>

\* the identifiers matching the query, in the order the service pages through them
Mailbox == <<"m1", "m2", "m3", "m2", "m5">>

\* the continuation token the service hands out with its n-th page, when it
\* hands out one (tokens are opaque: the code only passes them back)
PageTokenOf(n) == IF n % 2 = 1 THEN "t1" ELSE "t2"

ProfileEmail == "me@example.com"

Hdr(n, v) == [Name |-> n, Value |-> v]

\* a message part; Data = "" stands for both a nil Body and empty Body.Data
Part(mime, hdrs, data, parts) ==
    [nil |-> FALSE, MimeType |-> mime, Headers |-> hdrs, Data |-> data, Parts |-> parts]

NilPart == [nil |-> TRUE, MimeType |-> "", Headers |-> << >>, Data |-> "", Parts |-> << >>]

\* base64.URLEncoding.DecodeString on the encoded bodies the service holds
B64Decode(data) ==
    CASE data = "cGxhaW4=" -> [ok |-> TRUE, text |-> "plain"]
      [] data = "aHRtbA==" -> [ok |-> TRUE, text |-> "html"]
      [] data = "aW5saW5l" -> [ok |-> TRUE, text |-> "inline"]
      [] data = "cDI=" -> [ok |-> TRUE, text |-> "p2"]
      [] data = "aDI=" -> [ok |-> TRUE, text |-> "h2"]
      [] OTHER -> [ok |-> FALSE, text |-> ""]

\* the stored message behind each identifier (format=full view); m7 is a
\* message the service returns without a payload
StoredMessage(id) ==
    CASE id = "m1" ->
           [Id |-> "m1", ThreadId |-> "th1", LabelIds |-> <<StrIN, StrL1>>, Snippet |-> "s1",
            Payload |-> Part("multipart/alternative",
                             <<Hdr("From", "a@x"), Hdr("To", "me@x"), Hdr("Subject", "hi"),
                               Hdr("Date", "d1"), Hdr("Cc", "c@x")>>, "",
                             <<Part("text/plain", << >>, "cGxhaW4=", << >>),
                               Part("text/html", << >>, "aHRtbA==", << >>)>>)]
      [] id = "m2" ->
           [Id |-> "m2", ThreadId |-> "th1", LabelIds |-> <<StrX9>>, Snippet |-> "s2",
            Payload |-> Part("text/html", <<Hdr("From", "b@x"), Hdr("Subject", "re")>>,
                             "aHRtbA==", << >>)]
      [] id = "m3" ->
           [Id |-> "m3", ThreadId |-> "th3", LabelIds |-> << >>, Snippet |-> "",
            Payload |-> Part("multipart/mixed",
                             <<Hdr("subject", "lower"), Hdr("Date", "d3"), Hdr("Date", "d3b")>>, "",
                             <<Part("text/plain", << >>, "!!", << >>),
                               Part("text/html", << >>, "aHRtbA==", << >>)>>)]
      [] id = "m4" ->
           [Id |-> "m4", ThreadId |-> "th4", LabelIds |-> <<<<"i", "n">>>>, Snippet |-> "s4",
            Payload |-> Part("image/png", <<Hdr("To", "z@x")>>, "aW5saW5l", << >>)]
      [] id = "m6" ->
           [Id |-> "m6", ThreadId |-> "th6", LabelIds |-> <<StrIN>>, Snippet |-> "s6",
            Payload |-> Part("multipart/mixed", <<Hdr("From", "f@x"), Hdr("Subject", "doc")>>, "",
                             <<Part("application/pdf", << >>, "", << >>)>>)]
      [] id = "m7" ->
           [Id |-> "m7", ThreadId |-> "th7", LabelIds |-> <<StrIN>>, Snippet |-> "s7",
            Payload |-> NilPart]
      [] OTHER ->
           [Id |-> id, ThreadId |-> "th5", LabelIds |-> <<StrL1, StrL1>>, Snippet |-> "s5",
            Payload |-> Part("text/plain", <<Hdr("From", "e@x"), Hdr("Subject", "")>>, "", << >>)]

RECURSIVE SelectHeaders(_, _)
SelectHeaders(hdrs, allow) ==
    IF hdrs = << >> THEN << >>
    ELSE (IF \E i \in 1..Len(allow) : allow[i] = Head(hdrs).Name THEN <<Head(hdrs)>> ELSE << >>)
         \o SelectHeaders(Tail(hdrs), allow)

\* Users.Messages.Get: full returns the part tree, metadata the allowed headers only
ServerGet(req) ==
    LET m == StoredMessage(req.id)
    IN  IF req.format = "full" THEN m
        ELSE IF m.Payload.nil THEN m
        ELSE [m EXCEPT !.Payload =
                 Part(m.Payload.MimeType, SelectHeaders(m.Payload.Headers, req.headers),
                      "", << >>)]

----------------------------------------------------------------------------
(* part_005: ParseFields *)

\* strings.Split(s, ","): always at least one token
RECURSIVE SplitComma(_, _)
SplitComma(s, cur) ==
    IF s = << >> THEN <<cur>>
    ELSE IF Head(s) = "," THEN <<cur>> \o SplitComma(Tail(s), << >>)
    ELSE SplitComma(Tail(s), Append(cur, Head(s)))

Split(s) == SplitComma(s, << >>)

\* variant: tokens are lowercased but not trimmed
ParseFieldsNoTrim(fieldsStr) ==
    {ToLower(Split(fieldsStr)[i]) : i \in 1..Len(Split(fieldsStr))}

ParseFields(fieldsStr) ==
    {TrimSpace(ToLower(Split(fieldsStr)[i])) : i \in 1..Len(Split(fieldsStr))}

----------------------------------------------------------------------------
(* part_005: ExtractBody, findBodyPart *)

RECURSIVE findBodyPart(_, _)
RECURSIVE findInParts(_, _, _)
findBodyPart(part, mimeType) ==
    IF part.MimeType = mimeType /\ part.Data # ""
    THEN LET d == B64Decode(part.Data) IN IF d.ok THEN d.text ELSE ""
    ELSE findInParts(part.Parts, 1, mimeType)

findInParts(parts, i, mimeType) ==
    IF i > Len(parts) THEN ""
    ELSE LET body == findBodyPart(parts[i], mimeType)
         IN  IF body # "" THEN body ELSE findInParts(parts, i + 1, mimeType)

\* variant: an undecodable text/plain part ends the extraction
ExtractBodyPlainFatal(payload) ==
    IF payload.nil THEN ""
    ELSE LET plain == findBodyPart(payload, "text/plain")
             html  == findBodyPart(payload, "text/html")
         IN  IF plain # "" THEN plain
             ELSE IF \E i \in 1..Len(payload.Parts) :
                        /\ payload.Parts[i].MimeType = "text/plain"
                        /\ payload.Parts[i].Data # ""
                        /\ ~B64Decode(payload.Parts[i].Data).ok
                  THEN ""
             ELSE html

ExtractBody(payload) ==
    IF payload.nil THEN ""
    ELSE LET plain == findBodyPart(payload, "text/plain")
             html  == findBodyPart(payload, "text/html")
         IN  IF plain # "" THEN plain
             ELSE IF html # "" THEN html
             ELSE IF payload.Data # ""
                  THEN LET d == B64Decode(payload.Data) IN IF d.ok THEN d.text ELSE ""
                  ELSE ""

----------------------------------------------------------------------------
(* part_005: MessageInfo, buildMessageInfo; labels.go: BuildMailURL *)

\* the zero MessageInfo; URL is a sequence of pieces, << >> being the empty string
ZeroInfo ==
    [ID |-> "", ThreadID |-> "", URL |-> << >>, From |-> "", To |-> "", Subject |-> "",
     Date |-> "", Snippet |-> "", Labels |-> << >>, Body |-> ""]

BuildMailURL(email, threadID) ==
    <<"https://mail.google.com/mail/?authuser=", email, "#all/", threadID>>

\* the switch of buildMessageInfo's header loop, for one header
ApplyHeader(info, header, fields) ==
    CASE header.Name = "From" /\ "from" \in fields -> [info EXCEPT !.From = header.Value]
      [] header.Name = "To" /\ "to" \in fields -> [info EXCEPT !.To = header.Value]
      [] header.Name = "Subject" /\ "subject" \in fields -> [info EXCEPT !.Subject = header.Value]
      [] header.Name = "Date" /\ "date" \in fields -> [info EXCEPT !.Date = header.Value]
      [] OTHER -> info

RECURSIVE ApplyHeaders(_, _, _, _)
ApplyHeaders(info, hdrs, n, fields) ==
    IF n = 0 THEN info ELSE ApplyHeader(ApplyHeaders(info, hdrs, n - 1, fields), hdrs[n], fields)

\* variant: the header loop copies From, To, Subject and Date whatever was asked
buildMessageInfoAllHeaders(msg, fields, email, idx) ==
    LET a == [ZeroInfo EXCEPT
                !.ID = IF "id" \in fields THEN msg.Id ELSE "",
                !.ThreadID = IF "threadid" \in fields THEN msg.ThreadId ELSE "",
                !.URL = IF "url" \in fields THEN BuildMailURL(email, msg.ThreadId) ELSE << >>,
                !.Labels = IF "labels" \in fields /\ ~idx.nil
                           THEN MapLabelIDsToNames(idx, msg.LabelIds) ELSE << >>,
                !.Snippet = IF "snippet" \in fields THEN msg.Snippet ELSE ""]
    IN  IF msg.Payload.nil THEN a
        ELSE ApplyHeaders(a, msg.Payload.Headers, Len(msg.Payload.Headers),
                          {"from", "to", "subject", "date"})

buildMessageInfo(msg, fields, email, idx) ==
    LET a == [ZeroInfo EXCEPT
                !.ID = IF "id" \in fields THEN msg.Id ELSE "",
                !.ThreadID = IF "threadid" \in fields THEN msg.ThreadId ELSE "",
                !.URL = IF "url" \in fields THEN BuildMailURL(email, msg.ThreadId) ELSE << >>,
                !.Labels = IF "labels" \in fields /\ ~idx.nil
                           THEN MapLabelIDsToNames(idx, msg.LabelIds) ELSE << >>,
                !.Snippet = IF "snippet" \in fields THEN msg.Snippet ELSE ""]
    IN  IF msg.Payload.nil THEN a
        ELSE ApplyHeaders(a, msg.Payload.Headers, Len(msg.Payload.Headers), fields)

----------------------------------------------------------------------------
(* part_005: MessageInfo's JSON tags; config.go: formatMessagesJSON *)

\* the json tag of every MessageInfo attribute (all are omitempty)
JSONTags ==
    [ID |-> "id", ThreadID |-> "threadId", URL |-> "url", From |-> "from", To |-> "to",
     Subject |-> "subject", Date |-> "date", Snippet |-> "snippet", Labels |-> "labels",
     Body |-> "body"]

\* one marshalled MessageInfo: the keys of the attributes that are not zero
JSONObject(info) ==
    LET present == {a \in DOMAIN JSONTags : info[a] # ZeroInfo[a]}
    IN  [k \in {JSONTags[a] : a \in present} |->
            info[CHOOSE a \in present : JSONTags[a] = k]]

formatMessagesJSON(msgs) == [j \in 1..Len(msgs) |-> JSONObject(msgs[j])]

----------------------------------------------------------------------------
(* The log of API calls: every entry has the same fields, "" / << >> where unused *)

NoReq ==
    [q |-> "", labelIds |-> << >>, maxResults |-> 0, pageToken |-> "",
     id |-> "", format |-> "", headers |-> << >>]

Call(api, req, ok, page, next) ==
    [api |-> api, req |-> req, ok |-> ok, page |-> page, next |-> next]

OfApi(api) == SelectSeq(calls, LAMBDA c : c.api = api)

ListCalls == OfApi("list")

GetCalls == OfApi("get")

RECURSIVE ConcatPages(_)
ConcatPages(cs) == IF cs = << >> THEN << >> ELSE Head(cs).page \o ConcatPages(Tail(cs))

\* the identifiers the service has served so far, page after page
ServedIds == ConcatPages(ListCalls)

----------------------------------------------------------------------------
(* part_005: ListMessages, step by step *)

\* variant: the profile is fetched for every listing
NeedsProfileAlways(fields) == TRUE

\* line 51
NeedsProfile(fields) == "url" \in fields

\* line 61
NeedsLabelIndex(o) == Len(o.LabelIDs) > 0 \/ "labels" \in o.Fields

\* variant: the query and the label filter go with the first request only
ListRequestFilterOnce(o, resolved, token) ==
    [NoReq EXCEPT !.q = IF token = "" THEN o.Query ELSE "",
                  !.labelIds = IF token = "" THEN resolved ELSE << >>,
                  !.maxResults = o.MaxResults, !.pageToken = token]

ListRequestNoToken(o, resolved, token) ==
    [NoReq EXCEPT !.q = o.Query, !.labelIds = resolved, !.maxResults = o.MaxResults]

\* lines 84-93: the list-messages request of one iteration (Q, LabelIds and
\* PageToken are set only when non-empty, which "" and << >> stand for)
ListRequest(o, resolved, token) ==
    [NoReq EXCEPT !.q = o.Query, !.labelIds = resolved, !.maxResults = o.MaxResults,
                  !.pageToken = token]

AccumulatePageOverwrite(all, page) == page

\* line 100
AccumulatePage(all, page) == all \o page

EmptyListingIsError == [messages |-> << >>, err |-> Err("no messages found")]

\* lines 108-110: return nil, nil
EmptyListingResult == [messages |-> << >>, err |-> NoErr]

\* line 113
NeedsBody(fields) == "body" \in fields

GetRequestAlwaysMetadata(id, needsBody) ==
    [NoReq EXCEPT !.id = id, !.format = "metadata",
                  !.headers = <<"From", "To", "Subject", "Date">>]

\* lines 121-126: the get-message request for one identifier
GetRequest(id, needsBody) ==
    IF needsBody THEN [NoReq EXCEPT !.id = id, !.format = "full"]
    ELSE [NoReq EXCEPT !.id = id, !.format = "metadata",
                       !.headers = <<"From", "To", "Subject", "Date">>]

\* lines 132-136: the summary of one fetched message
SummaryOf(msg, o, email, idx) ==
    LET info == buildMessageInfo(msg, o.Fields, email, idx)
    IN  IF NeedsBody(o.Fields) THEN [info EXCEPT !.Body = ExtractBody(msg.Payload)] ELSE info

FetchOneAbortOnError(msgs, ok, info) ==
    IF ok THEN [messages |-> Append(msgs, info), err |-> NoErr]
    ELSE [messages |-> << >>, err |-> Err("unable to retrieve message")]

\* lines 127-138: a failed fetch is skipped, a fetched message's summary appended
FetchOne(msgs, ok, info) ==
    IF ok THEN [messages |-> Append(msgs, info), err |-> NoErr]
    ELSE [messages |-> msgs, err |-> NoErr]

\* the pages the service may answer a list-messages request with: the next k
\* identifiers of the mailbox (k may be 0) and a continuation token or none
ListResponses ==
    LET served == Len(ServedIds)
    IN  {[page |-> SubSeq(Mailbox, served + 1, served + k), next |-> t] :
            k \in 0..(Len(Mailbox) - served), t \in {"", PageTokenOf(Len(ListCalls) + 1)}}

\* whether a call made with .Context(c) can succeed: never once c is done
DoOutcomes(c) == IF c.done THEN {FALSE} ELSE BOOLEAN

\* lines 49-57
GetUserEmailStep ==
    /\ pc = "profile"
    /\ IF NeedsProfile(opts.Fields)
       THEN \E ok \in BOOLEAN :
              /\ calls' = Append(calls, Call("profile", NoReq, ok, << >>, ""))
              /\ IF ok
                 THEN userEmail' = ProfileEmail /\ pc' = "labels" /\ err' = err
                 ELSE userEmail' = userEmail /\ pc' = "returned"
                      /\ err' = Err("unable to get user profile")
       ELSE pc' = "labels" /\ UNCHANGED <<calls, userEmail, err>>
    /\ UNCHANGED <<cfg, env, args, detail, ctx>>
    /\ UNCHANGED <<opts, srvLabels, labelsIndex, resolvedLabels, allMessages, pageToken,
                   fetched, messages, outcome, uop, uin, uout>>
    /\ UNCHANGED oauth

\* lines 59-67, with FetchLabelIndex
FetchLabelIndexStep ==
    /\ pc = "labels"
    /\ IF NeedsLabelIndex(opts)
       THEN \E ok \in BOOLEAN :
              /\ calls' = Append(calls, Call("labels", NoReq, ok, << >>, ""))
              /\ IF ok
                 THEN labelsIndex' = BuildLabelIndex(srvLabels) /\ pc' = "resolve"
                      /\ err' = err
                 ELSE labelsIndex' = labelsIndex /\ pc' = "returned"
                      /\ err' = Err("unable to list labels")
       ELSE pc' = "resolve" /\ UNCHANGED <<calls, labelsIndex, err>>
    /\ UNCHANGED <<cfg, env, args, detail, ctx>>
    /\ UNCHANGED <<opts, srvLabels, userEmail, resolvedLabels, allMessages, pageToken,
                   fetched, messages, outcome, uop, uin, uout>>
    /\ UNCHANGED oauth

\* lines 69-81
ResolveStep ==
    /\ pc = "resolve"
    /\ IF Len(opts.LabelIDs) > 0 /\ ~labelsIndex.nil
       THEN LET r == ResolveLabelIDs(labelsIndex, opts.LabelIDs)
            IN  IF r.err # NoErr
                THEN resolvedLabels' = resolvedLabels /\ err' = r.err /\ pc' = "returned"
                ELSE resolvedLabels' = r.ids /\ err' = err /\ pc' = "list"
       ELSE resolvedLabels' = opts.LabelIDs /\ err' = err /\ pc' = "list"
    /\ UNCHANGED <<cfg, env, args, detail, ctx>>
    /\ UNCHANGED <<opts, srvLabels, userEmail, labelsIndex, allMessages, pageToken,
                   fetched, messages, calls, outcome, uop, uin, uout>>
    /\ UNCHANGED oauth

\* variant: a failure after the first page only ends the paging
OnListErrorKeepPages(all, c) ==
    IF all = << >> THEN [err |-> Err("unable to retrieve messages"), pc |-> "returned"]
    ELSE [err |-> NoErr, pc |-> "get"]

\* lines 95-98: a failed list call ends ListMessages, on whatever page
OnListError(all, c) ==
    [err |-> IF c.done THEN Canceled("unable to retrieve messages")
             ELSE Err("unable to retrieve messages"),
     pc |-> "returned"]

\* variant: the paging loop gives up after one page
PagingStopsAfterOnePage(next) == FALSE

\* lines 102-105: the paging loop goes on while the response carries a token
PagingContinues(next) == next # ""

\* lines 83-110: one iteration of the paging loop
ListPage ==
    /\ pc = "list"
    /\ Len(ListCalls) < MaxPages
    /\ LET req == ListRequest(opts, resolvedLabels, pageToken)
       IN  \/ /\ calls' = Append(calls, Call("list", req, FALSE, << >>, ""))
              /\ err' = OnListError(allMessages, ctx).err
              /\ pc' = OnListError(allMessages, ctx).pc
              /\ UNCHANGED <<allMessages, pageToken, messages>>
           \/ \E resp \in ListResponses :
                LET all == AccumulatePage(allMessages, resp.page)
                IN  /\ ~ctx.done
                    /\ calls' = Append(calls, Call("list", req, TRUE, resp.page, resp.next))
                    /\ allMessages' = all
                    /\ IF PagingContinues(resp.next)
                       THEN pageToken' = resp.next /\ pc' = "list"
                            /\ UNCHANGED <<messages, err>>
                       ELSE /\ pageToken' = pageToken
                            /\ IF Len(all) = 0
                               THEN /\ messages' = EmptyListingResult.messages
                                    /\ err' = EmptyListingResult.err
                                    /\ pc' = "returned"
                               ELSE pc' = "get" /\ UNCHANGED <<messages, err>>
    /\ UNCHANGED <<cfg, env, args, detail, ctx>>
    /\ UNCHANGED <<opts, srvLabels, userEmail, labelsIndex, resolvedLabels, fetched,
                   outcome, uop, uin, uout>>
    /\ UNCHANGED oauth

\* variant: the fetch loop walks the identifiers from the last to the first
NextToFetchBackwards(all, n) == all[Len(all) - n]

\* line 117: for _, m := range allMessages, after n iterations
NextToFetch(all, n) == all[n + 1]

\* lines 116-141: one iteration of the fetch loop, or its end
FetchStep ==
    /\ pc = "get"
    /\ IF fetched < Len(allMessages)
       THEN LET req == GetRequest(NextToFetch(allMessages, fetched), NeedsBody(opts.Fields))
            IN  \E ok \in DoOutcomes(ctx) :
                  LET r == FetchOne(messages, ok,
                                    SummaryOf(ServerGet(req), opts, userEmail, labelsIndex))
                  IN  /\ calls' = Append(calls, Call("get", req, ok, << >>, ""))
                      /\ messages' = r.messages
                      /\ err' = r.err
                      /\ fetched' = fetched + 1
                      /\ pc' = IF r.err # NoErr THEN "returned" ELSE "get"
       ELSE pc' = "returned" /\ UNCHANGED <<calls, messages, err, fetched>>
    /\ UNCHANGED <<cfg, env, args, detail, ctx>>
    /\ UNCHANGED <<opts, srvLabels, userEmail, labelsIndex, resolvedLabels, allMessages,
                   pageToken, outcome, uop, uin, uout>>
    /\ UNCHANGED oauth

----------------------------------------------------------------------------
(* part_004: runList, after ListMessages returned *)

NoOutcome == [error |-> "", stdout |-> ""]

\* variant: runList formats whatever ListMessages returned
RunListOutcomeNoEmptyCheck(msgs, e) ==
    IF e # NoErr THEN [error |-> "unable to list messages", stdout |-> ""]
    ELSE [error |-> "", stdout |-> "messages"]

RunListOutcome(msgs, e) ==
    IF e # NoErr THEN [error |-> "unable to list messages", stdout |-> ""]
    ELSE IF Len(msgs) = 0 THEN [error |-> "", stdout |-> "No messages found."]
    ELSE [error |-> "", stdout |-> "messages"]

\* lines 78-93
RunListFinish ==
    /\ pc = "returned"
    /\ outcome' = RunListOutcome(messages, err)
    /\ pc' = "done"
    /\ UNCHANGED <<cfg, env, args, detail, ctx>>
    /\ UNCHANGED <<opts, srvLabels, userEmail, labelsIndex, resolvedLabels, allMessages,
                   pageToken, fetched, messages, err, calls, uop, uin, uout>>
    /\ UNCHANGED oauth

----------------------------------------------------------------------------
(* The list command: specification Spec *)

FieldChoices ==
    {{"id", "from", "subject", "date", "labels", "snippet"},
     {"id", "subject"},
     {"id", "url", "body"},
     {"threadid", "to", "body", "labels"}}

LabelChoices ==
    {<< >>,
     <<<<"i", "n">>, <<" ", "m", "Y", " ">>>>,
     <<<<"l", "1">>, <<"n", "o">>, <<"I", "N">>>>,
     <<<<"Z", "z">>, <<"n", "o">>>>}

OptsChoices ==
    [Query : {"", "is:unread"}, MaxResults : {10}, LabelIDs : LabelChoices,
     Fields : FieldChoices]

Init ==
    /\ pc = "profile"
    /\ opts \in OptsChoices
    /\ srvLabels = SpecLabels
    /\ userEmail = ""
    /\ labelsIndex = NilIndex
    /\ resolvedLabels = << >>
    /\ allMessages = << >>
    /\ pageToken = ""
    /\ fetched = 0
    /\ messages = << >>
    /\ err = NoErr
    /\ calls = << >>
    /\ outcome = NoOutcome
    /\ uop = ""
    /\ uin = << >>
    /\ uout = << >>
    /\ IdleCommand

Next ==
    \/ GetUserEmailStep
    \/ FetchLabelIndexStep
    \/ ResolveStep
    \/ ListPage
    \/ FetchStep
    \/ RunListFinish

Spec == Init /\ [][Next]_vars

----------------------------------------------------------------------------
(* The label index on its own: specification LabelSpec.  The mailbox's label *)
(* set, the requested tokens and the label IDs to map are drawn from small   *)
(* sets of strings that differ in case and in surrounding whitespace.        *)

LabelIdChoices == {<<"A">>, <<"b">>}

LabelNameChoices == {<<"a">>, <<"B">>, <<"C", "d">>, <<" ", "c">>}

LabelChoicesU == [Id : LabelIdChoices, Name : LabelNameChoices]

TokenChoices ==
    {<<"a">>, <<"A", " ">>, <<"b">>, <<" ", "c", "D">>, <<" ", "C">>, <<"x">>, <<" ", "Y">>}

MapIdChoices == {<<"a">>, <<"A">>, <<"B">>, <<"z">>}

SeqsUpTo(S, n) == UNION {[1..k -> S] : k \in 0..n}

LabelInit ==
    /\ pc = "ufetch"
    /\ srvLabels \in SeqsUpTo(LabelChoicesU, MaxLabels)
    /\ opts = [Query |-> "", MaxResults |-> 10, LabelIDs |-> << >>, Fields |-> {}]
    /\ userEmail = ""
    /\ labelsIndex = NilIndex
    /\ resolvedLabels = << >>
    /\ allMessages = << >>
    /\ pageToken = ""
    /\ fetched = 0
    /\ messages = << >>
    /\ err = NoErr
    /\ calls = << >>
    /\ outcome = NoOutcome
    /\ uop = ""
    /\ uin = << >>
    /\ uout = << >>
    /\ IdleCommand

\* FetchLabelIndex on a successful Users.Labels.List
UnitFetchLabelIndex ==
    /\ pc = "ufetch"
    /\ labelsIndex' = BuildLabelIndex(srvLabels)
    /\ pc' = "unit"
    /\ UNCHANGED <<cfg, env, args, detail, ctx>>
    /\ UNCHANGED <<opts, srvLabels, userEmail, resolvedLabels, allMessages, pageToken,
                   fetched, messages, err, calls, outcome, uop, uin, uout>>
    /\ UNCHANGED oauth

\* one call of LabelIndex.ResolveLabelIDs
UnitResolve ==
    /\ pc = "unit"
    /\ \E requested \in SeqsUpTo(TokenChoices, MaxReq) :
         /\ uop' = "ResolveLabelIDs"
         /\ uin' = requested
         /\ uout' = ResolveLabelIDs(labelsIndex, requested)
    /\ pc' = "udone"
    /\ UNCHANGED <<cfg, env, args, detail, ctx>>
    /\ UNCHANGED <<opts, srvLabels, userEmail, labelsIndex, resolvedLabels, allMessages,
                   pageToken, fetched, messages, err, calls, outcome>>
    /\ UNCHANGED oauth

\* one call of LabelIndex.MapLabelIDsToNames
UnitMap ==
    /\ pc = "unit"
    /\ \E ids \in SeqsUpTo(MapIdChoices, MaxReq) :
         /\ uop' = "MapLabelIDsToNames"
         /\ uin' = ids
         /\ uout' = MapLabelIDsToNames(labelsIndex, ids)
    /\ pc' = "udone"
    /\ UNCHANGED <<cfg, env, args, detail, ctx>>
    /\ UNCHANGED <<opts, srvLabels, userEmail, labelsIndex, resolvedLabels, allMessages,
                   pageToken, fetched, messages, err, calls, outcome>>
    /\ UNCHANGED oauth

LabelNext ==
    \/ UnitFetchLabelIndex
    \/ UnitResolve
    \/ UnitMap

LabelSpec == LabelInit /\ [][LabelNext]_vars

----------------------------------------------------------------------------
(* Properties of the list command (specification Spec) *)

RECURSIVE SumSeq(_)
SumSeq(ns) == IF ns = << >> THEN 0 ELSE Head(ns) + SumSeq(Tail(ns))

PageSizes == [i \in 1..Len(ListCalls) |-> Len(ListCalls[i].page)]

AllListCallsOk == \A i \in 1..Len(ListCalls) : ListCalls[i].ok

LastListCall == ListCalls[Len(ListCalls)]

\* the paging loop was left through its break
PagingCompleted ==
    Len(ListCalls) > 0 /\ AllListCallsOk /\ LastListCall.next = ""

\* C1: while no list-messages call has failed, the accumulated identifiers are
\* the concatenation of the pages served so far, in order, and their number is
\* the sum of the page lengths -- whatever the split into pages was.
C1_Aggregation ==
    (pc \in {"list", "get", "returned", "done"} /\ AllListCallsOk) =>
        /\ allMessages = ServedIds
        /\ Len(allMessages) = SumSeq(PageSizes)

\* five identifiers served as pages of 2, 2 and 1
C1_Witness ==
    /\ pc = "get"
    /\ PageSizes = <<2, 2, 1>>
    /\ allMessages = Mailbox

\* C2: the first list-messages request carries no token, each later one the
\* token of the response before it; after a response with a token the loop is
\* about to issue the next request with that token, and the loop is left
\* without error only after a response without a token; no request follows a
\* response without a token.
C2_PaginationProtocol ==
    LET L == ListCalls
    IN  /\ Len(L) > 0 => L[1].req.pageToken = ""
        /\ \A i \in 2..Len(L) :
              /\ L[i - 1].ok
              /\ L[i - 1].next # ""
              /\ L[i].req.pageToken = L[i - 1].next
        /\ (Len(L) > 0 /\ LastListCall.ok /\ LastListCall.next # "") =>
              (pc = "list" /\ pageToken = LastListCall.next)
        /\ (pc = "get" \/ (pc \in {"returned", "done"} /\ err = NoErr)) =>
              PagingCompleted

\* three requests: none, then "t1", then "t2", and the loop left
C2_Witness ==
    /\ pc = "get"
    /\ Len(ListCalls) = 3
    /\ ListCalls[2].req.pageToken = "t1"
    /\ ListCalls[3].req.pageToken = "t2"
    /\ ListCalls[3].next = ""

\* a token (trimmed, lowercased) that equals no lowercased name and no
\* lowercased ID of the label set
UnknownLabel(labels, raw) ==
    \A i \in 1..Len(labels) :
        /\ ToLower(TrimSpace(raw)) # ToLower(labels[i].Name)
        /\ ToLower(TrimSpace(raw)) # ToLower(labels[i].Id)

UnknownRequested == {i \in 1..Len(opts.LabelIDs) : UnknownLabel(srvLabels, opts.LabelIDs[i])}

LabelIndexFetched == \E i \in 1..Len(calls) : calls[i].api = "labels" /\ calls[i].ok

\* C3: when a requested label matches no name and no ID of the label set, no
\* list-messages and no get-message call is ever made, and once the index is
\* fetched and resolution has run, the operation has returned the
\* "label not found" error naming the (first) unknown label.
C3_UnknownLabelAborts ==
    UnknownRequested # {} =>
        /\ ListCalls = << >>
        /\ GetCalls = << >>
        /\ (LabelIndexFetched /\ pc # "resolve") =>
              /\ pc \in {"returned", "done"}
              /\ \E i \in UnknownRequested :
                    /\ \A j \in UnknownRequested : i <= j
                    /\ err = LabelNotFound(opts.LabelIDs[i])
              /\ pc = "done" => outcome = [error |-> "unable to list messages", stdout |-> ""]

\* -l l1 -l no -l IN: the second label is unknown
C3_Witness ==
    /\ pc = "done"
    /\ opts.LabelIDs = <<<<"l", "1">>, <<"n", "o">>, <<"I", "N">>>>
    /\ err = LabelNotFound(<<"n", "o">>)
    /\ LabelIndexFetched

RECURSIVE SummariesOfFetched(_)
SummariesOfFetched(cs) ==
    IF cs = << >> THEN << >>
    ELSE (IF Head(cs).ok
          THEN <<SummaryOf(ServerGet(Head(cs).req), opts, userEmail, labelsIndex)>>
          ELSE << >>)
         \o SummariesOfFetched(Tail(cs))

FetchedIds ==
    LET okCalls == SelectSeq(GetCalls, LAMBDA c : c.ok)
    IN  [i \in 1..Len(okCalls) |-> okCalls[i].req.id]

\* C4: once the fetch loop is entered the listing never ends in an error: the
\* get-message calls follow the accumulated identifiers, and the result holds
\* exactly one summary per successful call, in that order.
C4_FetchFailuresSkipped ==
    (pc = "get" \/ Len(GetCalls) > 0) =>
        /\ err = NoErr
        /\ Len(GetCalls) = fetched
        /\ \A i \in 1..Len(GetCalls) : GetCalls[i].req.id = allMessages[i]
        /\ messages = SummariesOfFetched(GetCalls)
        /\ Len(messages) = Len(FetchedIds)
        /\ "id" \in opts.Fields => [i \in 1..Len(messages) |-> messages[i].ID] = FetchedIds
        /\ pc = "done" => outcome.error = ""

\* five identifiers, the fetches of m1, m3 and m4 fail
C4_Witness ==
    /\ pc = "returned"
    /\ fetched = 5
    /\ "id" \in opts.Fields
    /\ FetchedIds = <<"m2", "m5">>
    /\ Len(messages) = 2
    /\ err = NoErr

\* C5: every get-message call is format=full when "body" is requested and
\* otherwise format=metadata with the headers From, To, Subject, Date; a
\* summary has a body only when "body" is requested, and then it is the body
\* extracted from the full message.
C5_FetchFidelity ==
    /\ \A i \in 1..Len(GetCalls) :
          IF "body" \in opts.Fields
          THEN GetCalls[i].req.format = "full" /\ GetCalls[i].req.headers = << >>
          ELSE /\ GetCalls[i].req.format = "metadata"
               /\ GetCalls[i].req.headers = <<"From", "To", "Subject", "Date">>
    /\ (pc \in {"get", "returned", "done"} /\ err = NoErr) =>
          \A j \in 1..Len(messages) :
             messages[j].Body =
                IF "body" \in opts.Fields
                THEN ExtractBody(StoredMessage(FetchedIds[j]).Payload)
                ELSE ""

\* "body" requested: m1 fetched in full and its plain-text body extracted
C5_Witness ==
    /\ pc = "returned"
    /\ "body" \in opts.Fields
    /\ Len(messages) >= 2
    /\ GetCalls[1].ok /\ GetCalls[1].req.format = "full"
    /\ messages[1].Body = "plain"
    /\ messages[2].Body = "html"

\* C6: when the paging loop ends with no identifier at all, ListMessages
\* returns no summaries and no error without any get-message call, and runList
\* prints "No messages found." and succeeds; an error instead makes runList
\* fail and print nothing.
C6_EmptyListing ==
    /\ (PagingCompleted /\ ServedIds = << >>) =>
          /\ pc \in {"returned", "done"}
          /\ messages = << >>
          /\ err = NoErr
          /\ GetCalls = << >>
          /\ pc = "done" => outcome = [error |-> "", stdout |-> "No messages found."]
    /\ (pc = "done" /\ err # NoErr) => (outcome.error # "" /\ outcome.stdout = "")

\* two empty pages, then "No messages found."
C6_Witness ==
    /\ pc = "done"
    /\ PageSizes = <<0, 0>>
    /\ LastListCall.next = ""
    /\ outcome.stdout = "No messages found."

----------------------------------------------------------------------------
(* Properties of the label index (specification LabelSpec) *)

\* equal up to the case of the letters
CaseVariant(t, s) ==
    Len(t) = Len(s) /\ \A i \in 1..Len(s) : LowerChar(t[i]) = LowerChar(s[i])

\* t is a case-variant of s, with or without whitespace added around it
VariantOf(t, s) ==
    \E a \in 1..(Len(t) + 1) : \E b \in 0..Len(t) :
        /\ CaseVariant(SubSeq(t, a, b), s)
        /\ \A i \in (1..Len(t)) \ (a..b) : IsSpace(t[i])

LastIndex(S) == CHOOSE i \in S : \A j \in S : j <= i

NameMatches(labels, key) == {i \in 1..Len(labels) : ToLower(labels[i].Name) = key}

IdMatches(labels, key) == {i \in 1..Len(labels) : ToLower(labels[i].Id) = key}

\* the ID a known key stands for: that of the last label with this name, or
\* else of the last label with this ID
CanonicalID(labels, key) ==
    IF NameMatches(labels, key) # {} THEN labels[LastIndex(NameMatches(labels, key))].Id
    ELSE labels[LastIndex(IdMatches(labels, key))].Id

\* the label of position j is one named, or identified, s up to case
LabelCalled(j, s) ==
    CaseVariant(srvLabels[j].Name, s) \/ CaseVariant(srvLabels[j].Id, s)

\* C7 (as claimed): every token that is a case-variant of a label's name or
\* ID, with or without surrounding whitespace, resolves to the ID of a label
\* with that name or ID.
C7_AnyNameResolves ==
    (uop = "ResolveLabelIDs" /\ Len(uin) = 1) =>
        \A i \in 1..Len(srvLabels) : \A s \in {srvLabels[i].Name, srvLabels[i].Id} :
            VariantOf(uin[1], s) =>
                /\ uout.err = NoErr
                /\ Len(uout.ids) = 1
                /\ \E j \in 1..Len(srvLabels) :
                      uout.ids[1] = srvLabels[j].Id /\ LabelCalled(j, s)

\* C7 (amended): a token that is a case-variant of a label's name or ID, with
\* or without surrounding whitespace, resolves as that name or ID itself does
\* (to the same ID, or like it to "label not found"); and when the name or ID
\* has no whitespace of its own at its ends, it resolves, to the ID (as the
\* mailbox spells it) of a label with that name or ID.
C7_CaseInsensitive ==
    (uop = "ResolveLabelIDs" /\ Len(uin) = 1) =>
        \A i \in 1..Len(srvLabels) : \A s \in {srvLabels[i].Name, srvLabels[i].Id} :
            VariantOf(uin[1], s) =>
                /\ uout.ids = ResolveLabelIDs(labelsIndex, <<s>>).ids
                /\ uout.err.msg = ResolveLabelIDs(labelsIndex, <<s>>).err.msg
                /\ s = TrimSpace(s) =>
                      /\ uout.err = NoErr
                      /\ Len(uout.ids) = 1
                      /\ \E j \in 1..Len(srvLabels) :
                            uout.ids[1] = srvLabels[j].Id /\ LabelCalled(j, s)

\* " cD" resolves to the ID of the label named "Cd"
C7_Witness ==
    /\ uop = "ResolveLabelIDs"
    /\ uin = <<<<" ", "c", "D">>>>
    /\ srvLabels = <<[Id |-> <<"b">>, Name |-> <<"C", "d">>]>>
    /\ uout = [ids |-> <<<<"b">>>>, err |-> NoErr]

UnknownIn == {i \in 1..Len(uin) : UnknownLabel(srvLabels, uin[i])}

\* C8: when every token is known the result has one ID per token, in the
\* order of the tokens; otherwise it is the error naming the first unknown
\* token and no ID at all.
C8_FailFastOrdered ==
    uop = "ResolveLabelIDs" =>
        IF UnknownIn = {}
        THEN /\ uout.err = NoErr
             /\ Len(uout.ids) = Len(uin)
             /\ \A i \in 1..Len(uin) :
                   uout.ids[i] = CanonicalID(srvLabels, ToLower(TrimSpace(uin[i])))
        ELSE /\ uout.ids = << >>
             /\ \E i \in UnknownIn :
                   /\ \A j \in UnknownIn : i <= j
                   /\ uout.err = LabelNotFound(uin[i])

\* the same label asked for twice, by name and by a variant of its ID
C8_Witness ==
    /\ uop = "ResolveLabelIDs"
    /\ uin = <<<<"a">>, <<"A", " ">>>>
    /\ srvLabels = <<[Id |-> <<"A">>, Name |-> <<"B">>]>>
    /\ uout = [ids |-> <<<<"A">>, <<"A">>>>, err |-> NoErr]

\* C9: in a successful resolution, a token whose key is both the lowercased
\* name of one label and the lowercased ID of another resolves to the ID of
\* the label with that name.
C9_NamePrecedence ==
    (uop = "ResolveLabelIDs" /\ uout.err = NoErr) =>
        \A p \in 1..Len(uin) :
            LET key == ToLower(TrimSpace(uin[p]))
            IN  (\E i \in NameMatches(srvLabels, key) :
                    \E j \in IdMatches(srvLabels, key) : i # j) =>
                   /\ Len(uout.ids) >= p
                   /\ uout.ids[p] = srvLabels[LastIndex(NameMatches(srvLabels, key))].Id

\* "a" is the name of label b and, lowercased, the ID of label A
C9_Witness ==
    /\ uop = "ResolveLabelIDs"
    /\ uin = <<<<"a">>>>
    /\ srvLabels = <<[Id |-> <<"A">>, Name |-> <<"B">>], [Id |-> <<"b">>, Name |-> <<"a">>]>>
    /\ uout = [ids |-> <<<<"b">>>>, err |-> NoErr]

\* C10: the mapped sequence has the length and order of the IDs; an ID that
\* some label's ID equals up to case becomes that label's display name, and
\* any other ID is kept as it is.
C10_IdentityFallback ==
    uop = "MapLabelIDsToNames" =>
        /\ Len(uout) = Len(uin)
        /\ \A i \in 1..Len(uin) :
              LET hits == {k \in 1..Len(srvLabels) : CaseVariant(srvLabels[k].Id, uin[i])}
              IN  uout[i] = IF hits # {} THEN srvLabels[LastIndex(hits)].Name ELSE uin[i]

\* "z" is no label and passes through; "a" is label A, named "Cd"
C10_Witness ==
    /\ uop = "MapLabelIDsToNames"
    /\ uin = <<<<"z">>, <<"a">>>>
    /\ srvLabels = <<[Id |-> <<"A">>, Name |-> <<"C", "d">>]>>
    /\ uout = <<<<"z">>, <<"C", "d">>>>

----------------------------------------------------------------------------
(* Unit harness for the body extractor (specification BodySpec) *)

\* most sub-parts of the root part
MaxParts == 2

\* parts without sub-parts: two decodable text/plain, an undecodable one, a
\* decodable and an undecodable text/html, and an attachment without inline data
LeafChoices ==
    {Part("text/plain", << >>, "cGxhaW4=", << >>), Part("text/plain", << >>, "cDI=", << >>),
     Part("text/plain", << >>, "!!", << >>), Part("text/html", << >>, "aHRtbA==", << >>),
     Part("text/html", << >>, "!!", << >>), Part("image/png", << >>, "", << >>)}

\* type and inline content of a part that carries one sub-part
NestHeadChoices ==
    {<<"multipart/alternative", "">>, <<"text/plain", "!!">>, <<"text/html", "!!">>,
     <<"text/plain", "">>}

SubPartChoices ==
    LeafChoices \cup {Part(h[1], << >>, h[2], <<c>>) : h \in NestHeadChoices, c \in LeafChoices}

\* type and inline content of the root part
RootHeadChoices ==
    {<<"multipart/mixed", "">>, <<"multipart/mixed", "aW5saW5l">>, <<"text/plain", "!!">>,
     <<"image/png", "aW5saW5l">>, <<"image/png", "!!">>, <<"text/html", "aDI=">>}

PayloadChoices ==
    {NilPart} \cup {Part(h[1], << >>, h[2], ps) :
                      h \in RootHeadChoices, ps \in SeqsUpTo(SubPartChoices, MaxParts)}

BodyInit ==
    /\ pc = "ubody"
    /\ srvLabels = << >>
    /\ opts = [Query |-> "", MaxResults |-> 10, LabelIDs |-> << >>, Fields |-> {}]
    /\ userEmail = ""
    /\ labelsIndex = NilIndex
    /\ resolvedLabels = << >>
    /\ allMessages = << >>
    /\ pageToken = ""
    /\ fetched = 0
    /\ messages = << >>
    /\ err = NoErr
    /\ calls = << >>
    /\ outcome = NoOutcome
    /\ uop = ""
    /\ uin = << >>
    /\ uout = << >>
    /\ IdleCommand

\* one call of ExtractBody
UnitExtractBody ==
    /\ pc = "ubody"
    /\ \E payload \in PayloadChoices :
         /\ uop' = "ExtractBody"
         /\ uin' = payload
         /\ uout' = ExtractBody(payload)
    /\ pc' = "udone"
    /\ UNCHANGED <<cfg, env, args, detail, ctx>>
    /\ UNCHANGED <<opts, srvLabels, userEmail, labelsIndex, resolvedLabels, allMessages,
                   pageToken, fetched, messages, err, calls, outcome>>
    /\ UNCHANGED oauth

BodyNext == UnitExtractBody

BodySpec == BodyInit /\ [][BodyNext]_vars

----------------------------------------------------------------------------
(* Properties of the body extractor (specification BodySpec) *)

\* the parts of a tree in depth-first pre-order
RECURSIVE PreOrder(_)
RECURSIVE PreOrderAll(_)
PreOrder(part) == <<part>> \o PreOrderAll(part.Parts)

PreOrderAll(parts) ==
    IF parts = << >> THEN << >> ELSE PreOrder(Head(parts)) \o PreOrderAll(Tail(parts))

HasContent(part, mimeType) == part.MimeType = mimeType /\ part.Data # ""

Decodable(part, mimeType) ==
    HasContent(part, mimeType) /\ B64Decode(part.Data).ok /\ B64Decode(part.Data).text # ""

\* positions, in pre-order, of the parts of a type that decode
DecodablePositions(root, mimeType) ==
    {i \in 1..Len(PreOrder(root)) : Decodable(PreOrder(root)[i], mimeType)}

MinOf(S) == CHOOSE n \in S : \A m \in S : n <= m

FirstDecodable(root, mimeType) ==
    B64Decode(PreOrder(root)[MinOf(DecodablePositions(root, mimeType))].Data).text

BodyExtracted == pc = "udone" /\ uop = "ExtractBody" /\ ~uin.nil

\* C11: on a tree with at least one decodable text/plain part, ExtractBody
\* returns the content of the first such part in depth-first pre-order,
\* wherever the text/html parts sit.
C11_PlainPreferred ==
    (BodyExtracted /\ DecodablePositions(uin, "text/plain") # {})
        => uout = FirstDecodable(uin, "text/plain")

\* the tree of the C11 counterexample: the decodable text/plain part sits under
\* an undecodable text/plain part, and the text/html part is returned instead
C11_NestedPlainMissed ==
    /\ BodyExtracted
    /\ uin = Part("multipart/mixed", << >>, "",
                  <<Part("text/plain", << >>, "!!", <<Part("text/plain", << >>, "cGxhaW4=", << >>)>>),
                    Part("text/html", << >>, "aHRtbA==", << >>)>>)
    /\ uout = "html"

PartsOfType(root, mimeType) ==
    {i \in 1..Len(PreOrder(root)) : HasContent(PreOrder(root)[i], mimeType)}

\* the tree has text/html content and all of it decodes
HtmlValid(root) ==
    /\ PartsOfType(root, "text/html") # {}
    /\ PartsOfType(root, "text/html") = DecodablePositions(root, "text/html")

\* the tree has text/plain content and none of it decodes
PlainUndecodable(root) ==
    /\ PartsOfType(root, "text/plain") # {}
    /\ DecodablePositions(root, "text/plain") = {}

NoPlainPart(root) ==
    \A i \in 1..Len(PreOrder(root)) : PreOrder(root)[i].MimeType # "text/plain"

\* C12: a tree with undecodable text/plain content and valid text/html content
\* yields the decoded HTML, and so does a tree with valid text/html content and
\* no text/plain part.
C12_DecodeFailureFallsThrough ==
    (BodyExtracted /\ HtmlValid(uin) /\ (PlainUndecodable(uin) \/ NoPlainPart(uin)))
        => uout = FirstDecodable(uin, "text/html")

C12_Witness ==
    /\ BodyExtracted
    /\ uin = Part("multipart/mixed", << >>, "",
                  <<Part("text/plain", << >>, "!!", << >>),
                    Part("text/html", << >>, "aHRtbA==", << >>)>>)
    /\ uout = "html"

\* a candidate decodes: a text/plain or text/html part with content, at any
\* depth, or the root's inline content
SomeCandidateDecodes(root) ==
    \/ DecodablePositions(root, "text/plain") # {}
    \/ DecodablePositions(root, "text/html") # {}
    \/ (root.Data # "" /\ B64Decode(root.Data).ok)

\* C13: ExtractBody returns the empty string only if no candidate anywhere in
\* the tree decodes, candidates nested under an undecodable part of the searched
\* type included.
C13_EmptyOnlyIfNothingDecodes ==
    (BodyExtracted /\ uout = "") => ~SomeCandidateDecodes(uin)

\* the tree of the C13 counterexample
C13_NestedCandidateLost ==
    /\ BodyExtracted
    /\ uin = Part("multipart/mixed", << >>, "",
                  <<Part("text/plain", << >>, "!!", <<Part("text/plain", << >>, "cGxhaW4=", << >>)>>)>>)
    /\ uout = ""

----------------------------------------------------------------------------
(* Unit harness for the field selector (specification FieldsSpec) *)

\* most comma-separated tokens of one -f value
MaxTokens == 3

FieldTokenChoices ==
    {<<"I", "d">>, <<" ", "F", "R", "O", "M", " ">>, <<" ", "s", "u", "b", "j", "e", "c", "t">>, <<"i", "d">>, <<"f", "r", "o", "m">>, << >>, <<"Z", "z">>}

RECURSIVE JoinComma(_)
JoinComma(toks) ==
    IF toks = << >> THEN << >>
    ELSE IF Len(toks) = 1 THEN Head(toks)
    ELSE Head(toks) \o <<",">> \o JoinComma(Tail(toks))

FieldStringChoices == {JoinComma(toks) : toks \in SeqsUpTo(FieldTokenChoices, MaxTokens)}

FieldsInit ==
    /\ pc = "ufields"
    /\ srvLabels = << >>
    /\ opts = [Query |-> "", MaxResults |-> 10, LabelIDs |-> << >>, Fields |-> {}]
    /\ userEmail = ""
    /\ labelsIndex = NilIndex
    /\ resolvedLabels = << >>
    /\ allMessages = << >>
    /\ pageToken = ""
    /\ fetched = 0
    /\ messages = << >>
    /\ err = NoErr
    /\ calls = << >>
    /\ outcome = NoOutcome
    /\ uop = ""
    /\ uin = << >>
    /\ uout = << >>
    /\ IdleCommand

\* one call of ParseFields
UnitParseFields ==
    /\ pc = "ufields"
    /\ \E fieldsStr \in FieldStringChoices :
         /\ uop' = "ParseFields"
         /\ uin' = fieldsStr
         /\ uout' = ParseFields(fieldsStr)
    /\ pc' = "udone"
    /\ UNCHANGED <<cfg, env, args, detail, ctx>>
    /\ UNCHANGED <<opts, srvLabels, userEmail, labelsIndex, resolvedLabels, allMessages,
                   pageToken, fetched, messages, err, calls, outcome>>
    /\ UNCHANGED oauth

FieldsNext == UnitParseFields

FieldsSpec == FieldsInit /\ [][FieldsNext]_vars

----------------------------------------------------------------------------
(* Properties of the field selector (specification FieldsSpec) *)

\* the maximal comma-free stretches of a string, empty ones included
TokenSpans(s) ==
    {sp \in (1..(Len(s) + 1)) \X (0..Len(s)) :
        /\ sp[2] + 1 >= sp[1]
        /\ (sp[1] = 1 \/ s[sp[1] - 1] = ",")
        /\ (sp[2] = Len(s) \/ s[sp[2] + 1] = ",")
        /\ \A i \in sp[1]..sp[2] : s[i] # ","}

TokensOf(s) == {SubSeq(s, sp[1], sp[2]) : sp \in TokenSpans(s)}

Reverse(q) == [i \in 1..Len(q) |-> q[Len(q) + 1 - i]]

\* a space on both sides of every token
PadTokens(s) == JoinComma([i \in 1..Len(Split(s)) |-> <<" ">> \o Split(s)[i] \o <<"\t">>])

FieldsParsed == pc = "udone" /\ uop = "ParseFields"

\* C16: ParseFields yields exactly the set of trimmed, lowercased
\* comma-separated tokens; the result does not depend on case, surrounding
\* whitespace, token order or repetition, and unknown names are kept.
C16_ParseFieldsSet ==
    FieldsParsed =>
        /\ uout = {ToLower(TrimSpace(t)) : t \in TokensOf(uin)}
        /\ ParseFields(ToLower(uin)) = uout
        /\ ParseFields(PadTokens(uin)) = uout
        /\ ParseFields(JoinComma(Reverse(Split(uin)))) = uout
        /\ ParseFields(uin \o <<",">> \o uin) = uout
        /\ (<<"Z", "z">> \in TokensOf(uin) => <<"z", "z">> \in uout)

C16_Witness ==
    /\ FieldsParsed
    /\ uin = <<"I", "d", ",", " ", "F", "R", "O", "M", " ", ",", " ", "s", "u", "b", "j", "e", "c", "t">>
    /\ uout = {<<"i", "d">>, <<"f", "r", "o", "m">>, <<"s", "u", "b", "j", "e", "c", "t">>}

----------------------------------------------------------------------------
(* Field selection in the summaries (specification Spec) *)

\* the MessageInfo attribute each field name selects
SelectorAttr ==
    [id |-> "ID", threadid |-> "ThreadID", url |-> "URL", from |-> "From", to |-> "To",
     subject |-> "Subject", date |-> "Date", snippet |-> "Snippet", labels |-> "Labels",
     body |-> "Body"]

RequestedTags == {JSONTags[SelectorAttr[f]] : f \in opts.Fields \cap DOMAIN SelectorAttr}

\* C17: a summary carries only the requested fields: an attribute is populated
\* only if its field name was requested, and the JSON output has no other keys
\* (with "id,subject", at most the keys id and subject).
C17_OnlyRequestedFields ==
    \A j \in 1..Len(messages) :
        /\ \A f \in DOMAIN SelectorAttr :
             f \notin opts.Fields => messages[j][SelectorAttr[f]] = ZeroInfo[SelectorAttr[f]]
        /\ DOMAIN formatMessagesJSON(messages)[j] \subseteq RequestedTags
        /\ (opts.Fields = {"id", "subject"}
              => DOMAIN formatMessagesJSON(messages)[j] \subseteq {"id", "subject"})

C17_Witness ==
    /\ pc = "done"
    /\ opts.Fields = {"id", "subject"}
    /\ Len(messages) = 2
    /\ formatMessagesJSON(messages) = <<[id |-> "m1", subject |-> "hi"],
                                        [id |-> "m2", subject |-> "re"]>>

----------------------------------------------------------------------------
(* part_005: GetMessage, step by step; part_002: runGet *)

\* lines 161-182: the detail built from a fetched message
DetailOf(msg, email, idx) ==
    LET d == [NilDetail EXCEPT !.nil = FALSE, !.ID = msg.Id, !.ThreadID = msg.ThreadId,
                               !.URL = BuildMailURL(email, msg.ThreadId),
                               !.Labels = MapLabelIDsToNames(idx, msg.LabelIds)]
        h == ApplyHeaders(d, msg.Payload.Headers, Len(msg.Payload.Headers),
                          {"from", "to", "subject", "date"})
    IN  [h EXCEPT !.Body = ExtractBody(msg.Payload)]

\* variant: a message without a body is an error
GetResultEmptyBodyIsError(msg, email, idx) ==
    IF ExtractBody(msg.Payload) = ""
    THEN [detail |-> NilDetail, err |-> Err("unable to retrieve message")]
    ELSE [detail |-> DetailOf(msg, email, idx), err |-> NoErr]

\* lines 161-183: what GetMessage returns once the message was fetched
GetResult(msg, email, idx) == [detail |-> DetailOf(msg, email, idx), err |-> NoErr]

\* variant: a failed call does not end GetMessage
StepAfterBestEffort(next, ok) == next

\* lines 147-149, 152-154, 157-159: a failed call ends GetMessage
StepAfter(next, ok) == IF ok THEN next ELSE "greturned"

\* lines 146-149, with GetUserEmail
GetMessageProfile ==
    /\ pc = "gprofile"
    /\ \E ok \in BOOLEAN :
         /\ calls' = Append(calls, Call("profile", NoReq, ok, << >>, ""))
         /\ userEmail' = IF ok THEN ProfileEmail ELSE userEmail
         /\ err' = IF ok THEN err ELSE Err("unable to get user profile")
         /\ pc' = StepAfter("glabels", ok)
    /\ UNCHANGED <<opts, srvLabels, labelsIndex, resolvedLabels, allMessages, pageToken,
                   fetched, messages, outcome, uop, uin, uout, cfg, env, args, detail, ctx>>
    /\ UNCHANGED oauth

\* lines 151-154, with FetchLabelIndex
GetMessageLabels ==
    /\ pc = "glabels"
    /\ \E ok \in BOOLEAN :
         /\ calls' = Append(calls, Call("labels", NoReq, ok, << >>, ""))
         /\ labelsIndex' = IF ok THEN BuildLabelIndex(srvLabels) ELSE labelsIndex
         /\ err' = IF ok THEN err ELSE Err("unable to list labels")
         /\ pc' = StepAfter("gget", ok)
    /\ UNCHANGED <<opts, srvLabels, userEmail, resolvedLabels, allMessages, pageToken,
                   fetched, messages, outcome, uop, uin, uout, cfg, env, args, detail, ctx>>
    /\ UNCHANGED oauth

\* lines 156-183: the fetch at full fidelity and the detail; a message without
\* a payload ends the program at line 168
GetMessageGet ==
    /\ pc = "gget"
    /\ LET req == [NoReq EXCEPT !.id = args.id, !.format = "full"]
           msg == ServerGet(req)
       IN  \E ok \in DoOutcomes(ctx) :
             /\ calls' = Append(calls, Call("get", req, ok, << >>, ""))
             /\ IF ~ok
                THEN /\ err' = IF ctx.done THEN Canceled("unable to retrieve message")
                               ELSE Err("unable to retrieve message")
                     /\ detail' = detail
                     /\ pc' = StepAfter("greturned", ok)
                ELSE IF msg.Payload.nil
                THEN pc' = "gpanic" /\ UNCHANGED <<err, detail>>
                ELSE /\ detail' = GetResult(msg, userEmail, labelsIndex).detail
                     /\ err' = GetResult(msg, userEmail, labelsIndex).err
                     /\ pc' = "greturned"
    /\ UNCHANGED <<opts, srvLabels, userEmail, labelsIndex, resolvedLabels, allMessages,
                   pageToken, fetched, messages, outcome, uop, uin, uout, cfg, env, args, ctx>>
    /\ UNCHANGED oauth

RunGetOutcome(d, e) ==
    IF e # NoErr THEN [error |-> "unable to get message", stdout |-> ""]
    ELSE [error |-> "", stdout |-> "detail"]

\* part_002, lines 124-136
RunGetFinish ==
    /\ pc = "greturned"
    /\ outcome' = RunGetOutcome(detail, err)
    /\ pc' = "gdone"
    /\ UNCHANGED <<opts, srvLabels, userEmail, labelsIndex, resolvedLabels, allMessages,
                   pageToken, fetched, messages, err, calls, uop, uin, uout,
                   cfg, env, args, detail, ctx>>
    /\ UNCHANGED oauth

----------------------------------------------------------------------------
(* The get command: specification GetSpec *)

MessageIds == {"m1", "m2", "m3", "m4", "m5", "m6", "m7"}

\* the label sets the mailbox may have
SrvLabelChoices ==
    {SpecLabels, << >>, <<[Id |-> StrIN, Name |-> <<"I", "n", "b", "o", "x">>]>>}

GetInit ==
    /\ pc = "gprofile"
    /\ args \in {[NoArgs EXCEPT !.id = id] : id \in MessageIds}
    /\ srvLabels \in SrvLabelChoices
    /\ opts = [Query |-> "", MaxResults |-> 10, LabelIDs |-> << >>, Fields |-> {}]
    /\ userEmail = ""
    /\ labelsIndex = NilIndex
    /\ resolvedLabels = << >>
    /\ allMessages = << >>
    /\ pageToken = ""
    /\ fetched = 0
    /\ messages = << >>
    /\ err = NoErr
    /\ calls = << >>
    /\ outcome = NoOutcome
    /\ uop = ""
    /\ uin = << >>
    /\ uout = << >>
    /\ cfg = ValidConfig
    /\ env = FullEnv
    /\ detail = NilDetail
    /\ ctx = Background
    /\ oauth = NoOAuth

GetNext ==
    \/ GetMessageProfile
    \/ GetMessageLabels
    \/ GetMessageGet
    \/ RunGetFinish

GetSpec == GetInit /\ [][GetNext]_vars

----------------------------------------------------------------------------
(* Properties of the get command (specification GetSpec) *)

GetReturned == pc \in {"greturned", "gdone"}

ApiNames == [i \in 1..Len(calls) |-> calls[i].api]

IsPrefix(p, q) == Len(p) <= Len(q) /\ SubSeq(q, 1, Len(p)) = p

\* the stored message has no text/plain part, no text/html part and no inline
\* content in its root
NoBodyAnywhere(id) ==
    LET root == StoredMessage(id).Payload
    IN  /\ root.Data = ""
        /\ \A i \in 1..Len(PreOrder(root)) :
             PreOrder(root)[i].MimeType \notin {"text/plain", "text/html"}

\* C14: GetMessage on a message with no text/plain part, no text/html part and
\* an empty inline body returns a detail whose Body is empty, and no error.
C14_EmptyBodyIsNotAnError ==
    (GetReturned /\ NoBodyAnywhere(args.id) /\ Len(calls) = 3 /\ calls[3].ok)
        => (~detail.nil /\ detail.ID = args.id /\ detail.Body = "" /\ err = NoErr)

C14_Witness ==
    /\ pc = "gdone"
    /\ args.id = "m6"
    /\ ~detail.nil
    /\ detail.Body = ""
    /\ detail.Subject = "doc"
    /\ outcome = [error |-> "", stdout |-> "detail"]

\* C15: GetMessage calls get-profile, then list-labels, then get-message at
\* full fidelity; a failure of any of them ends it with an error and no detail,
\* and no later call is made.
C15_GetSequence ==
    /\ IsPrefix(ApiNames, <<"profile", "labels", "get">>)
    /\ \A i \in 1..Len(calls) :
         /\ (~calls[i].ok => i = Len(calls))
         /\ (calls[i].api = "get" => calls[i].req.format = "full" /\ calls[i].req.id = args.id)
    /\ GetReturned =>
         IF \E i \in 1..Len(calls) : ~calls[i].ok
         THEN err # NoErr /\ detail.nil
         ELSE Len(calls) = 3 /\ err = NoErr /\ ~detail.nil
    /\ (pc = "gdone" /\ err # NoErr) => outcome.error = "unable to get message"

C15_Witness ==
    /\ pc = "gdone"
    /\ Len(calls) = 2
    /\ calls[1].api = "profile" /\ calls[1].ok
    /\ calls[2].api = "labels" /\ ~calls[2].ok
    /\ detail.nil
    /\ outcome.error = "unable to get message"

----------------------------------------------------------------------------
(* ListMessages and GetMessage under a cancellable context (specification
   CancelSpec) *)

\* the caller cancels ctx while the operation runs
Cancel ==
    /\ ~ctx.done
    /\ pc \in {"profile", "labels", "resolve", "list", "get", "gprofile", "glabels", "gget"}
    /\ ctx' = [done |-> TRUE, at |-> Len(calls)]
    /\ UNCHANGED <<pc, opts, srvLabels, userEmail, labelsIndex, resolvedLabels, allMessages,
                   pageToken, fetched, messages, err, calls, outcome, uop, uin, uout,
                   cfg, env, args, detail>>
    /\ UNCHANGED oauth

CancelOptsChoices ==
    {o \in OptsChoices : o.Query = "" /\ o.LabelIDs \in {<< >>, <<<<"i", "n">>, <<" ", "m", "Y", " ">>>>}}

CancelInit ==
    /\ \/ pc = "profile" /\ opts \in CancelOptsChoices /\ args = NoArgs
       \/ /\ pc = "gprofile"
          /\ opts = [Query |-> "", MaxResults |-> 10, LabelIDs |-> << >>, Fields |-> {}]
          /\ args \in {[NoArgs EXCEPT !.id = id] : id \in MessageIds}
    /\ srvLabels = SpecLabels
    /\ userEmail = ""
    /\ labelsIndex = NilIndex
    /\ resolvedLabels = << >>
    /\ allMessages = << >>
    /\ pageToken = ""
    /\ fetched = 0
    /\ messages = << >>
    /\ err = NoErr
    /\ calls = << >>
    /\ outcome = NoOutcome
    /\ uop = ""
    /\ uin = << >>
    /\ uout = << >>
    /\ cfg = ValidConfig
    /\ env = FullEnv
    /\ detail = NilDetail
    /\ ctx = Background
    /\ oauth = NoOAuth

CancelNext ==
    \/ Next
    \/ GetNext
    \/ Cancel

CancelSpec == CancelInit /\ [][CancelNext]_vars

OperationReturned == pc \in {"returned", "done", "greturned", "gdone"}

IsCanceled(e) == e.arg = <<"context canceled">>

\* C18: once the context is cancelled while ListMessages or GetMessage still
\* has a call to make, that call is aborted and the operation returns a
\* cancellation error at once: no further API call, no result.
C18_CancellationFails ==
    (ctx.done /\ OperationReturned /\ Len(calls) > ctx.at)
        => /\ IsCanceled(err)
           /\ messages = << >>
           /\ detail.nil
           /\ Len(calls) = ctx.at + 1
           /\ ~calls[ctx.at + 1].ok

\* cancelled during the fetch loop: the remaining fetches fail one after the
\* other and the listing returns what it had, with no error
C18_PartialListingAfterCancel ==
    /\ pc = "done"
    /\ ctx.done
    /\ Len(GetCalls) = 3
    /\ GetCalls[1].ok /\ ~GetCalls[2].ok /\ ~GetCalls[3].ok
    /\ Len(messages) = 1
    /\ err = NoErr
    /\ outcome = [error |-> "", stdout |-> "messages"]

----------------------------------------------------------------------------
(* part_006: NewService; gmail.go: NewGmailService; auth.go: GetClient *)

\* part_006, lines 29-40: the authenticator chosen for a configuration
newAuthenticator(c) ==
    IF c.AuthType = AuthTypeServiceAccount
    THEN [kind |-> AuthTypeServiceAccount, credentialsFile |-> c.GoogleApplicationCredentials,
          tokenFile |-> ""]
    ELSE [kind |-> AuthTypeOAuth, credentialsFile |-> c.GoogleApplicationCredentials,
          tokenFile |-> c.GoogleUserCredentials]

\* auth.go, lines 38-55 and 185-191: client is FALSE for the nil client
GetClient(auth, e) ==
    IF auth.kind = AuthTypeServiceAccount
    THEN [client |-> FALSE, err |-> ""]
    ELSE IF auth.credentialsFile \notin e.files
    THEN [client |-> FALSE, err |-> "unable to read client secret file"]
    ELSE IF auth.tokenFile \notin e.files
    THEN [client |-> FALSE, err |-> "token not found, please run 'gml auth' first"]
    ELSE [client |-> TRUE, err |-> ""]

\* gmail.NewService(ctx) on Application Default Credentials: the file named by
\* GOOGLE_APPLICATION_CREDENTIALS when it is set, what the environment offers
\* otherwise
DefaultCredentialsFound(auth, e) ==
    IF auth.credentialsFile # "" THEN auth.credentialsFile \in e.files ELSE e.adc

\* gmail.go, lines 18-35
NewGmailService(auth, e) ==
    LET c == GetClient(auth, e)
    IN  IF c.err # "" THEN "failed to get authenticated client"
        ELSE IF c.client THEN ""
        ELSE IF DefaultCredentialsFound(auth, e) THEN ""
        ELSE "failed to create gmail service"

\* config.go, lines 40-50: Config.Validate, "" for nil; no command calls it
Validate(c) ==
    IF c.GoogleApplicationCredentials = "" THEN "application_credentials is required"
    ELSE IF c.AuthType = AuthTypeOAuth /\ c.GoogleUserCredentials = ""
    THEN "user_credentials is required for OAuth authentication"
    ELSE ""

\* part_006, lines 15-27: the error NewService returns, "" for none
NewService(c, e) == NewGmailService(newAuthenticator(c), e)

----------------------------------------------------------------------------
(* part_004: the list command's flags and runList up to ListMessages;
   part_002: runGet up to GetMessage *)

\* part_004, line 100: the default of -n
DefaultMaxResults == 10

\* part_004, line 26
defaultFields == <<"i", "d", ",", "f", "r", "o", "m", ",", "s", "u", "b", "j", "e", "c", "t", ",", "d", "a", "t", "e", ",", "l", "a", "b", "e", "l", "s", ",", "s", "n", "i", "p", "p", "e", "t">>

\* a parsed field name as the key ListMessages looks up
FieldKey(t) ==
    CASE t = <<"i", "d">> -> "id"
      [] t = <<"t", "h", "r", "e", "a", "d", "i", "d">> -> "threadid"
      [] t = <<"u", "r", "l">> -> "url"
      [] t = <<"f", "r", "o", "m">> -> "from"
      [] t = <<"t", "o">> -> "to"
      [] t = <<"s", "u", "b", "j", "e", "c", "t">> -> "subject"
      [] t = <<"d", "a", "t", "e">> -> "date"
      [] t = <<"s", "n", "i", "p", "p", "e", "t">> -> "snippet"
      [] t = <<"l", "a", "b", "e", "l", "s">> -> "labels"
      [] t = <<"b", "o", "d", "y">> -> "body"
      [] t = << >> -> ""
      [] OTHER -> "?"

\* part_004, lines 56-63 and 71-76: the options runList builds from the flags
OptionsOf(a) ==
    [Query |-> "",
     MaxResults |-> IF a.n = << >> THEN DefaultMaxResults ELSE a.n[1],
     LabelIDs |-> << >>,
     Fields |-> {FieldKey(t) : t \in ParseFields(IF a.fields = << >> THEN defaultFields
                                                 ELSE a.fields[1])}]

\* part_004, lines 51-69
RunListStart ==
    /\ pc = "lstart"
    /\ opts' = OptionsOf(args)
    /\ IF NewService(cfg, env) # ""
       THEN pc' = "done" /\ outcome' = [error |-> "unable to create service", stdout |-> ""]
       ELSE pc' = "profile" /\ outcome' = outcome
    /\ UNCHANGED <<srvLabels, userEmail, labelsIndex, resolvedLabels, allMessages, pageToken,
                   fetched, messages, err, calls, uop, uin, uout, cfg, env, args, detail, ctx>>
    /\ UNCHANGED oauth

\* part_002, lines 110-122
RunGetStart ==
    /\ pc = "gstart"
    /\ IF NewService(cfg, env) # ""
       THEN pc' = "gdone" /\ outcome' = [error |-> "unable to create service", stdout |-> ""]
       ELSE pc' = "gprofile" /\ outcome' = outcome
    /\ UNCHANGED <<opts, srvLabels, userEmail, labelsIndex, resolvedLabels, allMessages,
                   pageToken, fetched, messages, err, calls, uop, uin, uout,
                   cfg, env, args, detail, ctx>>
    /\ UNCHANGED oauth

----------------------------------------------------------------------------
(* The list and get commands from the command line on (specification CmdSpec) *)

ConfigChoices ==
    {Config(t, a, u) : t \in {AuthTypeOAuth, AuthTypeServiceAccount},
                       a \in {"", "creds.json"}, u \in {"", "token.json"}}

EnvChoices == [files : {{}, {"creds.json", "token.json"}}, adc : BOOLEAN]

\* -n absent, at the documented maximum, above it; -f absent or "id,subject"
ListArgsChoices ==
    [n : {<< >>, <<500>>, <<501>>}, fields : {<< >>, <<<<"i", "d", ",", "s", "u", "b", "j", "e", "c", "t">>>>}, id : {""}]

GetArgsChoices == {[NoArgs EXCEPT !.id = id] : id \in {"m1", "m6"}}

CmdInit ==
    /\ \/ pc = "lstart" /\ args \in ListArgsChoices
       \/ pc = "gstart" /\ args \in GetArgsChoices
    /\ cfg \in ConfigChoices
    /\ env \in EnvChoices
    /\ opts = [Query |-> "", MaxResults |-> 0, LabelIDs |-> << >>, Fields |-> {}]
    /\ srvLabels = SpecLabels
    /\ userEmail = ""
    /\ labelsIndex = NilIndex
    /\ resolvedLabels = << >>
    /\ allMessages = << >>
    /\ pageToken = ""
    /\ fetched = 0
    /\ messages = << >>
    /\ err = NoErr
    /\ calls = << >>
    /\ outcome = NoOutcome
    /\ uop = ""
    /\ uin = << >>
    /\ uout = << >>
    /\ detail = NilDetail
    /\ ctx = Background
    /\ oauth = NoOAuth

CmdNext ==
    \/ RunListStart
    \/ RunGetStart
    \/ Next
    \/ GetNext

CmdSpec == CmdInit /\ [][CmdNext]_vars

\* C19: when application_credentials is missing, or the auth type is OAuth and
\* user_credentials is missing, list and get fail with a configuration error
\* and issue no API call.
C19_ConfigErrorsFirst ==
    Validate(cfg) # ""
        => /\ calls = << >>
           /\ (pc \in {"done", "gdone"} => outcome.error # "")

\* a service account without application_credentials, on a machine that has
\* default credentials: the listing runs
C19_ListingWithoutCredentials ==
    /\ pc = "done"
    /\ cfg = Config(AuthTypeServiceAccount, "", "")
    /\ env.adc
    /\ Len(calls) > 0
    /\ outcome = [error |-> "", stdout |-> "messages"]

\* README, line 75: the documented maximum of -n
MaxPageSize == 500

\* C20: every list-messages request carries the user's -n value as its page
\* size, 10 when -n is not given, and never more than 500.
C20_PageSizeBounded ==
    \A i \in 1..Len(ListCalls) :
        /\ ListCalls[i].req.maxResults = (IF args.n = << >> THEN DefaultMaxResults ELSE args.n[1])
        /\ ListCalls[i].req.maxResults <= MaxPageSize

\* -n 501: both pages are asked for with a page size of 501
C20_OversizedRequest ==
    /\ pc = "done"
    /\ args.n = <<501>>
    /\ Len(ListCalls) = 2
    /\ ListCalls[1].req.maxResults = 501 /\ ListCalls[2].req.maxResults = 501
    /\ ListCalls[1].ok /\ ListCalls[2].ok

----------------------------------------------------------------------------
(* Order of the API calls of a listing (specification Spec) *)

GetCallIds == [i \in 1..Len(GetCalls) |-> GetCalls[i].req.id]

\* C21: every list-messages call comes before the first get-message call,
\* which is issued only once paging has ended; get-message calls follow the
\* accumulated identifiers in order, one per identifier, duplicates included;
\* every call has its response before the next one is issued.
C21_StrictlySequential ==
    /\ \A i \in 1..Len(calls) : \A j \in 1..Len(calls) :
         (calls[i].api = "get" /\ calls[j].api = "list") => j < i
    /\ GetCalls # << >> => (LastListCall.ok /\ LastListCall.next = "")
    /\ Len(GetCalls) = fetched
    /\ IsPrefix(GetCallIds, ServedIds)
    /\ (pc \in {"returned", "done"} /\ err = NoErr /\ ListCalls # << >>)
         => GetCallIds = ServedIds

C21_Witness ==
    /\ pc = "done"
    /\ Len(ListCalls) = 2
    /\ GetCallIds = <<"m1", "m2", "m3", "m2">>
    /\ calls[Len(calls)].api = "get"

----------------------------------------------------------------------------
(* The root's inline content (specification BodySpec) *)

NeitherSearchFound(root) ==
    findBodyPart(root, "text/plain") = "" /\ findBodyPart(root, "text/html") = ""

\* C22: the root's own inline content is decoded and returned only when
\* neither search found a body and the root has no sub-parts; when it does not
\* decode the result is the empty string.
C22_RootInlineFallback ==
    BodyExtracted =>
        /\ (NeitherSearchFound(uin) /\ uin.Data # "" /\ uout # "") =>
              (uin.Parts = << >> /\ uout = B64Decode(uin.Data).text)
        /\ (NeitherSearchFound(uin) /\ uin.Data # "" /\ ~B64Decode(uin.Data).ok) => uout = ""

\* a root with inline content and a sub-part that is no text: the inline
\* content is returned although the root has sub-parts
C22_InlineDespiteSubParts ==
    /\ BodyExtracted
    /\ uin = Part("multipart/mixed", << >>, "aW5saW5l", <<Part("image/png", << >>, "", << >>)>>)
    /\ uout = "inline"

----------------------------------------------------------------------------
(* Termination of a listing (specification LiveSpec): the program keeps
   running and every call is answered, so the next step is always taken *)

LiveInit == Init /\ opts \in CancelOptsChoices

LiveSpec == LiveInit /\ [][Next]_vars /\ WF_vars(Next)

\* a response without continuation token arrived, or a list call failed
PagingEnded == ListCalls # << >> /\ (~LastListCall.ok \/ LastListCall.next = "")

BeyondPaging == pc = "get" \/ (pc \in {"returned", "done"} /\ ListCalls # << >>)

\* C23: the paging loop is left exactly when a response carries no token or a
\* list call fails, whatever the tokens and however many pages came before;
\* from then on the listing ends, after one fetch step per accumulated
\* identifier.
C23_Termination ==
    /\ [](BeyondPaging => PagingEnded)
    /\ [][(pc = "list" /\ Len(calls') > Len(calls) /\ ~PagingEnded') => pc' = "list"]_vars
    /\ [](Len(GetCalls) = fetched /\ fetched <= Len(allMessages))
    /\ [][fetched' # fetched => (fetched' = fetched + 1 /\ pc = "get")]_vars
    /\ (PagingEnded ~> (pc = "done" /\ (err = NoErr => fetched = Len(allMessages))))

\* three pages, the third request made with a token, then five fetches
C23_Witness ==
    /\ pc = "done"
    /\ Len(ListCalls) = 3
    /\ ListCalls[1].next # "" /\ ListCalls[2].next # "" /\ ListCalls[3].next = ""
    /\ fetched = 5
    /\ Len(GetCalls) = 5

----------------------------------------------------------------------------
(* A listing whose fetches all fail (specification Spec) *)

AllFetchesFailed ==
    /\ allMessages # << >>
    /\ Len(GetCalls) = Len(allMessages)
    /\ \A i \in 1..Len(GetCalls) : ~GetCalls[i].ok

\* C24: when identifiers were accumulated but every get-message call failed,
\* ListMessages returns an empty result and no error, and the list command
\* prints "No messages found." and succeeds, as for a listing without
\* identifiers.
C24_AllFetchesFail ==
    /\ (pc \in {"returned", "done"} /\ AllFetchesFailed) => (messages = << >> /\ err = NoErr)
    /\ (pc = "done" /\ AllFetchesFailed) =>
          /\ outcome = [error |-> "", stdout |-> "No messages found."]
          /\ outcome = RunListOutcome(EmptyListingResult.messages, EmptyListingResult.err)

C24_Witness ==
    /\ pc = "done"
    /\ allMessages = <<"m1", "m2", "m3">>
    /\ Len(GetCalls) = 3
    /\ ~GetCalls[1].ok /\ ~GetCalls[2].ok /\ ~GetCalls[3].ok
    /\ outcome.stdout = "No messages found."

----------------------------------------------------------------------------
(* The prefetches of a listing (specification Spec) *)

ProfileCalls == OfApi("profile")

LabelsCalls == OfApi("labels")

PrefetchFailed ==
    \E i \in 1..Len(calls) : calls[i].api \in {"profile", "labels"} /\ ~calls[i].ok

\* C25: get-profile is called only for "url", list-labels only for a label
\* filter or "labels", each at most once, get-profile first, both before the
\* first list-messages call; a listing that gets as far as paging has made
\* every prefetch it needs; a failed prefetch is the last call of the listing,
\* which returns an error and nothing else.
C25_PrefetchesFirst ==
    /\ Len(ProfileCalls) <= 1 /\ Len(LabelsCalls) <= 1
    /\ ProfileCalls # << >> => "url" \in opts.Fields
    /\ LabelsCalls # << >> => (opts.LabelIDs # << >> \/ "labels" \in opts.Fields)
    /\ \A i \in 1..Len(calls) : \A j \in 1..Len(calls) :
         /\ (calls[i].api \in {"profile", "labels"} /\ calls[j].api \in {"list", "get"}) => i < j
         /\ (calls[i].api = "profile" /\ calls[j].api = "labels") => i < j
    /\ (pc \in {"list", "get"} \/ ListCalls # << >>) =>
         /\ "url" \in opts.Fields => (ProfileCalls # << >> /\ ProfileCalls[1].ok)
         /\ (opts.LabelIDs # << >> \/ "labels" \in opts.Fields)
               => (LabelsCalls # << >> /\ LabelsCalls[1].ok)
    /\ PrefetchFailed =>
         /\ ~calls[Len(calls)].ok /\ calls[Len(calls)].api \in {"profile", "labels"}
         /\ pc \in {"returned", "done"}
         /\ err # NoErr /\ messages = << >>
         /\ pc = "done" => outcome.error = "unable to list messages"

\* both prefetches made, the second one fails
C25_Witness ==
    /\ pc = "done"
    /\ "url" \in opts.Fields
    /\ Len(calls) = 2
    /\ calls[1].api = "profile" /\ calls[1].ok
    /\ calls[2].api = "labels" /\ ~calls[2].ok
    /\ outcome.error = "unable to list messages"

----------------------------------------------------------------------------
(* A failed list-messages call (specification Spec) *)

ListFailed == \E i \in 1..Len(ListCalls) : ~ListCalls[i].ok

\* C26: a list-messages failure on any page ends the listing: it is the last
\* call, ListMessages returns an error and no summaries whatever earlier pages
\* held, and no get-message call is issued.
C26_ListFailureAborts ==
    ListFailed =>
        /\ ~calls[Len(calls)].ok /\ calls[Len(calls)].api = "list"
        /\ pc \in {"returned", "done"}
        /\ err.msg = "unable to retrieve messages"
        /\ messages = << >>
        /\ GetCalls = << >>
        /\ pc = "done" => outcome = [error |-> "unable to list messages", stdout |-> ""]

\* two pages with identifiers, then the third call fails
C26_Witness ==
    /\ pc = "done"
    /\ Len(ListCalls) = 3
    /\ ListCalls[1].ok /\ ListCalls[1].page = <<"m1", "m2">>
    /\ ListCalls[2].ok /\ ListCalls[2].page = <<"m3">>
    /\ ~ListCalls[3].ok
    /\ messages = << >>
    /\ outcome.error = "unable to list messages"

----------------------------------------------------------------------------
(* The frame of the list-messages requests (specification Spec) *)

\* a request with its continuation token blanked
FrameOf(req) == [req EXCEPT !.pageToken = ""]

\* the filter one resolution of the requested labels gives
ResolvedOnce ==
    IF opts.LabelIDs = << >> THEN << >>
    ELSE ResolveLabelIDs(BuildLabelIndex(srvLabels), opts.LabelIDs).ids

\* C27: all list-messages requests of a listing carry the same query, the same
\* resolved label filter and the same page size, so they differ in the
\* continuation token at most; the resolved filter is set once, before paging,
\* and not touched afterwards.
C27_RequestFrame ==
    /\ [](\A i \in 1..Len(ListCalls) :
            /\ ListCalls[i].req.q = opts.Query
            /\ ListCalls[i].req.labelIds = ResolvedOnce
            /\ ListCalls[i].req.maxResults = opts.MaxResults
            /\ FrameOf(ListCalls[i].req) = FrameOf(ListCalls[1].req))
    /\ [][resolvedLabels' # resolvedLabels => (pc = "resolve" /\ ListCalls = << >>)]_vars
    /\ [][opts' = opts]_vars

C27_Witness ==
    /\ pc = "done"
    /\ opts.Query = "is:unread"
    /\ Len(ListCalls) = 3
    /\ \A i \in 1..3 : ListCalls[i].req.labelIds = <<StrIN, StrL1>> /\ ListCalls[i].req.q = "is:unread"
    /\ ListCalls[1].req.pageToken = ""
    /\ ListCalls[2].req.pageToken # "" /\ ListCalls[3].req.pageToken # ListCalls[2].req.pageToken

----------------------------------------------------------------------------
(* The auth command (specifications AuthSpec and AuthLiveSpec):
   cmd/auth.go runAuth, internal/google/auth.go Authenticate and saveToken.
   pc: astart -> await -> closing -> exchange -> save -> adone.
   Authenticate blocks in one select on two unbuffered channels; every
   /callback request runs its handler in a goroutine of its own, which blocks
   at its channel send until a receiver takes the value. *)

MaxCallbacks == 2

\* the code parameter of a /callback request: absent, or a code
CallbackCodes == {"", "c1"}

\* what os.Stat sees at the token path before the command runs
InitialTokenFile(c, e) ==
    IF c.GoogleUserCredentials \in e.files THEN "old" ELSE "none"

\* the user's line at the re-authentication prompt
PromptResponses == {"y", "Y", "n", ""}

AuthFailed(o) == [error |-> "authentication failed", stdout |-> o]

\* auth.go lines 81-100: the client secret is read and parsed, the listener opened
CanStartServer(c, e, listenOk) ==
    /\ c.GoogleApplicationCredentials \in e.files
    /\ listenOk

\* runAuth up to the select of Authenticate
RunAuthStart ==
    /\ pc = "astart"
    /\ \E response \in PromptResponses, listenOk \in BOOLEAN :
        IF cfg.AuthType # AuthTypeOAuth
        THEN /\ outcome' = [error |-> "auth command is only available for OAuth authentication",
                            stdout |-> ""]
             /\ pc' = "adone"
             /\ UNCHANGED oauth
        ELSE IF oauth.tokenFile # "none" /\ response \notin {"y", "Y"}
        THEN /\ outcome' = [error |-> "", stdout |-> "Cancelled."]
             /\ pc' = "adone"
             /\ UNCHANGED oauth
        ELSE IF ~CanStartServer(cfg, env, listenOk)
        THEN /\ outcome' = AuthFailed("")
             /\ pc' = "adone"
             /\ UNCHANGED oauth
        ELSE /\ oauth' = [oauth EXCEPT !.open = TRUE, !.serve = "serving"]
             /\ pc' = "await"
             /\ UNCHANGED outcome
    /\ UNCHANGED <<opts, srvLabels, userEmail, labelsIndex, resolvedLabels, allMessages,
                   pageToken, fetched, messages, err, calls, uop, uin, uout,
                   cfg, env, args, detail, ctx>>

\* a /callback request arrives: its handler runs up to its channel send
\* (errChan when the code is absent, codeChan otherwise)
Callback ==
    /\ oauth.open
    /\ oauth.serve = "serving"
    /\ Len(oauth.handlers) < MaxCallbacks
    /\ \E code \in CallbackCodes :
        oauth' = [oauth EXCEPT !.handlers = Append(@, [code |-> code, at |-> "send"])]
    /\ UNCHANGED <<pc, opts, srvLabels, userEmail, labelsIndex, resolvedLabels, allMessages,
                   pageToken, fetched, messages, err, calls, outcome, uop, uin, uout,
                   cfg, env, args, detail, ctx>>

\* server.Serve returns an error other than ErrServerClosed: the goroutine
\* goes to its send on errChan
ServeFails ==
    /\ oauth.open
    /\ oauth.serve = "serving"
    /\ oauth' = [oauth EXCEPT !.serve = "send"]
    /\ UNCHANGED <<pc, opts, srvLabels, userEmail, labelsIndex, resolvedLabels, allMessages,
                   pageToken, fetched, messages, err, calls, outcome, uop, uin, uout,
                   cfg, env, args, detail, ctx>>

\* the select of Authenticate takes one value from one blocked sender, which
\* then runs to its end
SelectReceive ==
    /\ pc = "await"
    /\ \/ \E i \in 1..Len(oauth.handlers) :
            /\ oauth.handlers[i].at = "send"
            /\ oauth' = [oauth EXCEPT !.handlers[i].at = "done",
                                      !.code = oauth.handlers[i].code,
                                      !.failed = (oauth.handlers[i].code = "")]
       \/ /\ oauth.serve = "send"
          /\ oauth' = [oauth EXCEPT !.serve = "exited", !.failed = TRUE]
    /\ pc' = "closing"
    /\ UNCHANGED <<opts, srvLabels, userEmail, labelsIndex, resolvedLabels, allMessages,
                   pageToken, fetched, messages, err, calls, outcome, uop, uin, uout,
                   cfg, env, args, detail, ctx>>

\* server.Close() on either branch of the select: no request is accepted any
\* more; a Serve still running returns ErrServerClosed and sends nothing
ServerClose ==
    /\ pc = "closing"
    /\ oauth' = [oauth EXCEPT !.open = FALSE,
                              !.serve = IF @ = "serving" THEN "exited" ELSE @]
    /\ IF oauth.failed
       THEN outcome' = AuthFailed("") /\ pc' = "adone"
       ELSE pc' = "exchange" /\ UNCHANGED outcome
    /\ UNCHANGED <<opts, srvLabels, userEmail, labelsIndex, resolvedLabels, allMessages,
                   pageToken, fetched, messages, err, calls, uop, uin, uout,
                   cfg, env, args, detail, ctx>>

\* variant: the token is saved whatever the exchange answered
AfterExchangeSaveAnyway(ok) == "save"

\* auth.go lines 147-151
AfterExchange(ok) == IF ok THEN "save" ELSE "adone"

\* config.Exchange(context.Background(), code)
Exchange ==
    /\ pc = "exchange"
    /\ \E ok \in BOOLEAN :
        /\ oauth' = [oauth EXCEPT !.exchanged = ok]
        /\ pc' = AfterExchange(ok)
        /\ outcome' = IF AfterExchange(ok) = "adone" THEN AuthFailed("") ELSE outcome
    /\ UNCHANGED <<opts, srvLabels, userEmail, labelsIndex, resolvedLabels, allMessages,
                   pageToken, fetched, messages, err, calls, uop, uin, uout,
                   cfg, env, args, detail, ctx>>

\* saveToken: os.Create (fails on an empty path, may fail otherwise) truncates
\* the file, Encode writes the token (may fail, leaving the truncated file)
saveToken(path, file, how) ==
    IF path = "" \/ how = "create" THEN [file |-> file, ok |-> FALSE]
    ELSE IF how = "encode" THEN [file |-> "partial", ok |-> FALSE]
    ELSE [file |-> "new", ok |-> TRUE]

SaveToken ==
    /\ pc = "save"
    /\ \E how \in {"ok", "create", "encode"} :
        LET r == saveToken(cfg.GoogleUserCredentials, oauth.tokenFile, how)
        IN  /\ oauth' = [oauth EXCEPT !.tokenFile = r.file]
            /\ outcome' = IF r.ok THEN [error |-> "", stdout |-> "Authentication successful!"]
                          ELSE AuthFailed("Saving credential file")
    /\ pc' = "adone"
    /\ UNCHANGED <<opts, srvLabels, userEmail, labelsIndex, resolvedLabels, allMessages,
                   pageToken, fetched, messages, err, calls, uop, uin, uout,
                   cfg, env, args, detail, ctx>>

AuthEnvChoices == [files : SUBSET {"creds.json", "token.json"}, adc : {FALSE}]

AuthInit ==
    /\ pc = "astart"
    /\ cfg \in ConfigChoices
    /\ env \in AuthEnvChoices
    /\ args = NoArgs
    /\ oauth = [NoOAuth EXCEPT !.tokenFile = InitialTokenFile(cfg, env)]
    /\ opts = [Query |-> "", MaxResults |-> 0, LabelIDs |-> << >>, Fields |-> {}]
    /\ srvLabels = SpecLabels
    /\ userEmail = ""
    /\ labelsIndex = NilIndex
    /\ resolvedLabels = << >>
    /\ allMessages = << >>
    /\ pageToken = ""
    /\ fetched = 0
    /\ messages = << >>
    /\ err = NoErr
    /\ calls = << >>
    /\ outcome = NoOutcome
    /\ uop = ""
    /\ uin = << >>
    /\ uout = << >>
    /\ detail = NilDetail
    /\ ctx = Background

\* the steps of the command itself (requests and a failing Serve are the
\* environment's)
AuthProgram ==
    \/ RunAuthStart
    \/ SelectReceive
    \/ ServerClose
    \/ Exchange
    \/ SaveToken

AuthNext ==
    \/ AuthProgram
    \/ Callback
    \/ ServeFails

AuthSpec == AuthInit /\ [][AuthNext]_vars

\* the scheduler runs every goroutine that can take a step
AuthLiveSpec == AuthInit /\ [][AuthNext]_vars /\ WF_vars(AuthProgram)

----------------------------------------------------------------------------
(* Claims about the auth command *)

\* C28: the auth command writes the token file only in its save step, which it
\* reaches only after a callback delivered a non-empty code and the exchange
\* succeeded; when the auth type is not OAuth, the user does not answer y or Y,
\* the callback carries no code or the exchange fails, the token file is what
\* it was before the command.
C28_TokenFileOnlyAfterExchange ==
    /\ [][oauth'.tokenFile # oauth.tokenFile =>
            (pc = "save" /\ oauth.code # "" /\ ~oauth.failed /\ oauth.exchanged)]_vars
    /\ [](pc = "save" => (oauth.code # "" /\ ~oauth.failed /\ oauth.exchanged))
    /\ []((pc = "adone" /\ (\/ cfg.AuthType # AuthTypeOAuth
                            \/ outcome.stdout = "Cancelled."
                            \/ oauth.failed
                            \/ ~oauth.exchanged))
            => oauth.tokenFile = InitialTokenFile(cfg, env))

\* an earlier token survives a failed exchange that followed a delivered code
C28_Witness ==
    /\ pc = "adone"
    /\ oauth.code = "c1"
    /\ ~oauth.exchanged
    /\ oauth.tokenFile = "old"
    /\ outcome.error = "authentication failed"

\* the i-th /callback request has been accepted
HandlerStarted(i) == i <= Len(oauth.handlers)

\* its handler has returned
HandlerCompleted(i) == HandlerStarted(i) /\ oauth.handlers[i].at = "done"

\* C29: every callback handler invocation eventually completes, whatever the
\* number and interleaving of the /callback requests that arrive before the
\* local server is closed: none stays blocked at its channel send once
\* Authenticate has taken its one value and returned.
C29_HandlersComplete ==
    \A i \in 1..MaxCallbacks : [](HandlerStarted(i) => <>HandlerCompleted(i))

\* Authenticate has returned with the first request's code; the second
\* request's handler is still at its send on codeChan
C29_HandlerLeftBlocked ==
    /\ pc = "adone"
    /\ ~oauth.open
    /\ Len(oauth.handlers) = 2
    /\ oauth.handlers[1] = [code |-> "c1", at |-> "done"]
    /\ oauth.handlers[2] = [code |-> "c1", at |-> "send"]
    /\ outcome.stdout = "Authentication successful!"

----------------------------------------------------------------------------
(* Claims about a message without payload *)

HeaderFields == {"from", "to", "subject", "date"}

\* the summary ListMessages builds of message id under a field selection
ListedSummary(id, fields) ==
    SummaryOf(ServerGet(GetRequest(id, NeedsBody(fields))),
              [opts EXCEPT !.Fields = fields], ProfileEmail, BuildLabelIndex(srvLabels))

\* C30: a fetched message whose payload is absent never makes the program
\* crash: the listing gives a summary with empty header fields and an empty
\* body, and GetMessage gives a detail with empty header fields and an empty
\* body instead of terminating abnormally.
C30_AbsentPayloadSafe ==
    /\ \A fields \in SUBSET (HeaderFields \cup {"body", "id"}) :
          LET info == ListedSummary("m7", fields)
          IN  /\ info.From = "" /\ info.To = "" /\ info.Subject = "" /\ info.Date = ""
              /\ info.Body = ""
    /\ pc # "gpanic"
    /\ (pc \in {"greturned", "gdone"} /\ args.id = "m7" /\ err = NoErr) =>
          /\ ~detail.nil
          /\ detail.From = "" /\ detail.To = "" /\ detail.Subject = "" /\ detail.Date = ""
          /\ detail.Body = ""

\* the service answered the get of m7 and GetMessage did not return
C30_GetMessagePanics ==
    /\ pc = "gpanic"
    /\ args.id = "m7"
    /\ Len(calls) = 3
    /\ calls[3].api = "get" /\ calls[3].ok /\ calls[3].req.id = "m7"
    /\ detail = NilDetail
    /\ outcome = NoOutcome

====
